---- MODULE Spec2Model ----
(***************************************************************************)
(* A model of AutoBuildGo's provisioning service.                          *)
(*                                                                         *)
(*   Spec       the HTTP handler CreateRepoHandler (webserver.go), one     *)
(*              goroutine per request, stepping from one external call to  *)
(*              the next;                                                  *)
(*   SpecCache  concurrent callers of FetchSecretValue and the             *)
(*              process-wide secretCache they share;                       *)
(*   SpecClone  the CloneAndPushRepo calls of concurrent requests          *)
(*              (clone_push.go), step by step, with the working directory  *)
(*              of the process and the directories below it;               *)
(*   SpecRewrite  the rewrite of go.mod's module line, applied to every    *)
(*              go.mod of a few lines;                                     *)
(*   SpecGit    DefaultRepoConfig and GitClient.CreateGitRepository,       *)
(*              applied to every name, description, template URL, token    *)
(*              result and answer of a small set;                          *)
(*   SpecEntry  SpecClone with, for each call, the working directory it    *)
(*              was entered in;                                            *)
(*   SpecLive   the handler together with the CloneAndPushRepo call it     *)
(*              makes, every goroutine scheduled fairly.                   *)
(*                                                                         *)
(* The external systems (ECR, the GitHub template endpoint, Secrets        *)
(* Manager, the AWS config loader) answer nondeterministically from the    *)
(* small sets of outcomes the code distinguishes.                          *)
(***************************************************************************)
EXTENDS Naturals, Integers, Sequences, FiniteSets, TLC

(***************************************************************************)
(* Bounds of the model.                                                    *)
(***************************************************************************)
\* requests the server receives (each handled in a goroutine of its own)
MaxReqs == 2
\* goroutines that call FetchSecretValue
MaxCallers == 2
\* FetchSecretValue calls started, over all callers
MaxCalls == 2
\* requests followed from acceptance to their answer, workflow included
MaxLive == 1

Reqs == 1..MaxReqs
LiveReqs == 1..MaxLive
Callers == 1..MaxCallers

(***************************************************************************)
(* Program constants.                                                      *)
(***************************************************************************)
StatusOK == 200
StatusCreated == 201
StatusBadRequest == 400
StatusMethodNotAllowed == 405
StatusInternalServerError == 500

DefaultDescription == "Created from a template via automated setup"
SuccessBody == "ECR and Git repositories created successfully"

(***************************************************************************)
(* Inputs: what a client may send.                                         *)
(***************************************************************************)
Methods == {"POST", "GET"}
RepoNames == {"svc-a", "svc-b"}
Descriptions == {"", "orders service"}
\* a body json.Decode rejects
BadBody == [decodes |-> FALSE, RepoName |-> "", Description |-> ""]
\* RepoRequest: a body that decodes, with or without a repo_name
RepoRequest ==
    [decodes : {TRUE}, RepoName : RepoNames \cup {""}, Description : Descriptions]
Bodies == {BadBody} \cup RepoRequest
NoRequest == [method |-> "", body |-> BadBody]

(***************************************************************************)
(* Outcomes of the external calls.  nil is the absent error.               *)
(***************************************************************************)
nil == "nil"
\* ecr.CreateECRClient
EcrClientErrs == {"mock error creating ECR client"}
\* ecr.CreateRepo: the registry's two failures
EcrAlreadyExists == "repository already exists"
EcrGenericErr == "some error message"
\* CreateGitRepository: the token it resolves first, the transport, the answer
TokenErrs == {"error fetching secret token"}
TransportErrs == {"HTTP Do error"}
\* the transport's refusal of a POST to an empty URL
NoSchemeErr == "Post \"\": unsupported protocol scheme \"\""
\* an answer is its status, the text of its body, and the error reading the
\* body ends with (nil when the body reads to its end)
ReadErrs == {"mock read error"}
GitFailures ==
    { [status |-> StatusBadRequest, body |-> "Bad Request", readErr |-> nil],
      [status |-> StatusInternalServerError, body |-> "Internal Server Error",
       readErr |-> nil],
      [status |-> StatusBadRequest, body |-> "", readErr |-> "mock read error"] }
GitCreated == [status |-> StatusCreated, body |-> "", readErr |-> nil]
\* a template URL url.Parse refuses
MalformedURLs == {":invalid-url"}
\* FetchTemplateURL inside DefaultRepoConfig
TemplateURLs == {"https://api.github.com/repos/tmpl/generate"}
TemplateErrs == {"secret key TEMPLATE_URL not found"}
\* errors CloneAndPushRepo returns to the handler, which reads none of them
\* apart: those of its first step, of the push and of its last step
\* (clone_push.go 48, 109, 119)
CloneErrs ==
    { "error fetching GitHub token: ",
      "error pushing changes: ",
      "error removing the cloned repository: " }

VARIABLES
    pc,         \* [Reqs -> position of the request's goroutine in CreateRepoHandler]
    req,        \* [Reqs -> the request received: method and body]
    description,\* [Reqs -> the handler's local `description`]
    config,     \* [Reqs -> the handler's local `config` (RepoConfig)]
    calls,      \* [Reqs -> the external calls the handler made, in order, with outcome]
    resp,       \* [Reqs -> what the handler wrote to its ResponseWriter, in order]
    answers,    \* [Reqs -> the HTTP answers the template endpoint gave the handler]
    ecrRepos,   \* names of the repositories that exist in the registry
    gitRepos    \* names of the repositories that exist on the source host

handlerVars == <<pc, req, description, config, calls, resp, answers, ecrRepos, gitRepos>>

VARIABLES
    cpc,        \* [Callers -> position of the caller in FetchSecretValue]
    cur,        \* [Callers -> the call in progress: key, and what it did so far]
    secretData, \* [Callers -> the local map FetchSecretValue unmarshalled]
    lock,       \* secretCache's Mutex: 0 when free, else the caller holding it
    cache,      \* secretCache.data
    store,      \* the SecretString Secrets Manager holds for "github_token"
    hist,       \* [Callers -> the calls the caller completed, in order]
    started     \* FetchSecretValue calls started so far

cacheVars == <<cpc, cur, secretData, lock, cache, store, hist, started>>

VARIABLES
    job,        \* [Reqs -> the request's CloneAndPushRepo call: position, argument,
                \*          locals, the steps it ran with their errors, its result]
    cwd,        \* the working directory of the process (os.Chdir sets it for
                \* every goroutine)
    dirs,       \* the directories git clone created that still exist
    gomod       \* [directory -> the content of its go.mod], where there is one

cloneVars == <<job, cwd, dirs, gomod>>

VARIABLES
    rewrite     \* one rewrite of a go.mod: what was read, for whom, what is written

rewriteVars == <<rewrite>>

VARIABLES
    git         \* one CreateGitRepository call on a client whose token source and
                \* HTTP client are given: the configuration, what they return, the result

gitVars == <<git>>

pureVars == <<rewriteVars, gitVars>>

workflowVars == <<cloneVars, pureVars>>

vars == <<handlerVars, cacheVars, workflowVars>>

\* RepoConfig{} : the zero value
EmptyRepoConfig ==
    [Name |-> "", Description |-> "", Private |-> FALSE, AutoInit |-> FALSE,
     TemplateURL |-> ""]

\* a configuration that is public and keeps what it was given when the template
\* URL is not resolved
DefaultRepoConfig_Public(repoName, desc, tmpl) ==
    [config |-> [Name |-> repoName, Description |-> desc, Private |-> FALSE,
                 AutoInit |-> TRUE, TemplateURL |-> tmpl.value],
     err |-> IF tmpl.err # nil THEN "failed to fetch template URL: " \o tmpl.err
             ELSE nil]

\* func DefaultRepoConfig(repoName, description): tmpl is what FetchTemplateURL
\* returned, [value, err]
DefaultRepoConfig(repoName, desc, tmpl) ==
    IF tmpl.err # nil
    THEN [config |-> EmptyRepoConfig,
          err |-> "failed to fetch template URL: " \o tmpl.err]
    ELSE [config |-> [Name |-> repoName, Description |-> desc, Private |-> TRUE,
                      AutoInit |-> TRUE, TemplateURL |-> tmpl.value],
          err |-> nil]

\* http.Error(w, msg, code): the status, and the message followed by a newline
HttpError(msg, code) == [status |-> code, body |-> msg \o "\n"]

\* w.WriteHeader(http.StatusOK); w.Write(...)
HttpOK == [status |-> StatusOK, body |-> SuccessBody]

\* one entry of the call log
Call(step, arg, err) == [step |-> step, arg |-> arg, err |-> err]

InitHandler ==
    /\ pc = [r \in Reqs |-> "idle"]
    /\ req = [r \in Reqs |-> NoRequest]
    /\ description = [r \in Reqs |-> ""]
    /\ config = [r \in Reqs |-> EmptyRepoConfig]
    /\ calls = [r \in Reqs |-> <<>>]
    /\ resp = [r \in Reqs |-> <<>>]
    /\ ecrRepos = {}
    /\ gitRepos = {}
    /\ answers = [r \in Reqs |-> <<>>]

\* the handler writes an answer and returns
Return(r, answer) ==
    /\ resp' = [resp EXCEPT ![r] = Append(@, answer)]
    /\ pc' = [pc EXCEPT ![r] = "returned"]

\* the handler goes on to its next external call
Goto(r, label) ==
    /\ pc' = [pc EXCEPT ![r] = label]
    /\ UNCHANGED resp

Log(r, step, arg, err) ==
    calls' = [calls EXCEPT ![r] = Append(@, Call(step, arg, err))]

\* a description taken as it was sent
EffectiveDescription_AsSent(d) == d

\* webserver.go 53-56: the description the handler goes on with
EffectiveDescription(d) == IF d = "" THEN DefaultDescription ELSE d

\* a validation that lets a request without a repository name through
Validate_NoNameCheck(m, b) ==
    IF m # "POST" THEN HttpError("Method not allowed", StatusMethodNotAllowed)
    ELSE IF ~b.decodes THEN HttpError("Bad request", StatusBadRequest)
    ELSE [status |-> 0, body |-> ""]

\* webserver.go 37-51: the answer to a request that is refused, status 0 when the
\* request is let through
Validate(m, b) ==
    IF m # "POST" THEN HttpError("Method not allowed", StatusMethodNotAllowed)
    ELSE IF ~b.decodes THEN HttpError("Bad request", StatusBadRequest)
    ELSE IF b.RepoName = ""
    THEN HttpError("Repository name is required", StatusBadRequest)
    ELSE [status |-> 0, body |-> ""]

\* webserver.go 35-56: the request arrives; method, body and name are checked
Receive(r) ==
    /\ pc[r] = "idle"
    /\ \E m \in Methods, b \in Bodies :
        \* the body of a request that is not a POST is never read
        /\ m # "POST" => b = BadBody
        /\ req' = [req EXCEPT ![r] = [method |-> m, body |-> b]]
        /\ LET refusal == Validate(m, b)
           IN  IF refusal.status # 0
               THEN /\ Return(r, refusal)
                    /\ UNCHANGED description
               ELSE /\ description' =
                          [description EXCEPT
                              ![r] = EffectiveDescription(b.Description)]
                    /\ Goto(r, "CreateECRClient")
    /\ UNCHANGED <<config, calls, answers, ecrRepos, gitRepos, cacheVars, workflowVars>>

\* a failure branch that answers with the cause alone
CreateECRClientFailed_NoPrefix(r, err) ==
    Return(r, HttpError(err, StatusInternalServerError))

\* a failure branch without its return: the error is written and the handler goes on
CreateECRClientFailed_NoReturn(r, err) ==
    /\ resp' = [resp EXCEPT
           ![r] = Append(@, HttpError("Failed to create ECR client: " \o err,
                                      StatusInternalServerError))]
    /\ pc' = [pc EXCEPT ![r] = "CreateRepo"]

\* webserver.go 60-63: the branch taken when CreateECRClientFunc fails
CreateECRClientFailed(r, err) ==
    Return(r, HttpError("Failed to create ECR client: " \o err,
                        StatusInternalServerError))

\* webserver.go 58-63
CreateECRClient(r) ==
    /\ pc[r] = "CreateECRClient"
    /\ \E err \in {nil} \cup EcrClientErrs :
        /\ Log(r, "CreateECRClient", "", err)
        /\ IF err # nil
           THEN CreateECRClientFailed(r, err)
           ELSE Goto(r, "CreateRepo")
    /\ UNCHANGED <<req, description, config, answers, ecrRepos, gitRepos, cacheVars, workflowVars>>

\* what the registry may answer to a creation of `name`
EcrOutcomes(name) ==
    {EcrGenericErr} \cup (IF name \in ecrRepos THEN {EcrAlreadyExists} ELSE {nil})

\* the same branch without its return: the error is written and the handler goes on
CreateRepoFailed_NoReturn(r, err) ==
    /\ resp' = [resp EXCEPT
           ![r] = Append(@, HttpError("Failed to create ECR repository: " \o err,
                                      StatusInternalServerError))]
    /\ pc' = [pc EXCEPT ![r] = "LoadEnv"]

\* a failure branch that takes "already exists" for done and goes on
CreateRepoFailed_SwallowExists(r, err) ==
    IF err = EcrAlreadyExists THEN Goto(r, "LoadEnv")
    ELSE Return(r, HttpError("Failed to create ECR repository: " \o err,
                             StatusInternalServerError))

\* webserver.go 66-69: the branch taken when CreateRepoFunc fails
CreateRepoFailed(r, err) ==
    Return(r, HttpError("Failed to create ECR repository: " \o err,
                        StatusInternalServerError))

\* webserver.go 65-69
CreateRepo(r) ==
    /\ pc[r] = "CreateRepo"
    /\ \E err \in EcrOutcomes(req[r].body.RepoName) :
        /\ Log(r, "CreateRepo", req[r].body.RepoName, err)
        /\ IF err # nil
           THEN /\ CreateRepoFailed(r, err)
                /\ UNCHANGED ecrRepos
           ELSE /\ Goto(r, "LoadEnv")
                /\ ecrRepos' = ecrRepos \cup {req[r].body.RepoName}
    /\ UNCHANGED <<req, description, config, answers, gitRepos, cacheVars, workflowVars>>

\* what FetchTemplateURL may return to DefaultRepoConfig
TemplateResults ==
    [value : TemplateURLs, err : {nil}] \cup [value : {""}, err : TemplateErrs]

\* webserver.go 71-76: LoadEnvFunc(), DefaultRepoConfig(...), NewGitClientFunc().
\* The handler keeps the configuration and has no branch on DefaultRepoConfig's error.
BuildConfig(r) ==
    /\ pc[r] = "LoadEnv"
    /\ \E tmpl \in TemplateResults :
        LET res == DefaultRepoConfig(req[r].body.RepoName, description[r], tmpl)
        IN  /\ config' = [config EXCEPT ![r] = res.config]
            /\ calls' = [calls EXCEPT
                   ![r] = @ \o << Call("LoadEnv", "", nil),
                                  Call("DefaultRepoConfig", req[r].body.RepoName, res.err),
                                  Call("NewGitClient", "", nil) >>]
    /\ Goto(r, "CreateGitRepository")
    /\ UNCHANGED <<req, description, answers, ecrRepos, gitRepos, cacheVars, workflowVars>>

\* fmt's %d of a natural number: its decimal digits, most significant first
Digits == <<"0", "1", "2", "3", "4", "5", "6", "7", "8", "9">>
RECURSIVE Itoa(_)
Itoa(n) ==
    IF n < 10 THEN Digits[n + 1]
    ELSE Itoa(n \div 10) \o Digits[(n % 10) + 1]

\* http.NewRequest(http.MethodPost, url, ...): the error of url.Parse, if any
NewRequestErr(url) ==
    IF url \in MalformedURLs THEN "parse \"" \o url \o "\": missing protocol scheme"
    ELSE nil

\* a creation that puts its own words before the error of the transport
CreateGitRepositoryErr_Wrapped(tokenErr, url, doErr, answer) ==
    IF tokenErr # nil THEN tokenErr
    ELSE IF NewRequestErr(url) # nil
    THEN "failed to create request: " \o NewRequestErr(url)
    ELSE IF doErr # nil THEN "failed to send request: " \o doErr
    ELSE IF answer.status = StatusCreated THEN nil
    ELSE IF answer.readErr # nil
    THEN "failed to read response body: " \o answer.readErr
    ELSE "failed to create repository, status code: " \o Itoa(answer.status)
             \o ", response: " \o answer.body

\* a creation that takes every answer below 300 for a success
CreateGitRepositoryErr_Any2xx(tokenErr, url, doErr, answer) ==
    IF tokenErr # nil THEN tokenErr
    ELSE IF NewRequestErr(url) # nil THEN NewRequestErr(url)
    ELSE IF doErr # nil THEN doErr
    ELSE IF answer.status < 300 THEN nil
    ELSE IF answer.readErr # nil
    THEN "failed to read response body: " \o answer.readErr
    ELSE "failed to create repository, status code: " \o Itoa(answer.status)
             \o ", response: " \o answer.body

\* GitClient.CreateGitRepository: the token is resolved first, then the request
\* is built and sent; 201 is success, any other answer an error with its status
\* and body, or the error of reading the body
CreateGitRepositoryErr(tokenErr, url, doErr, answer) ==
    IF tokenErr # nil THEN tokenErr
    ELSE IF NewRequestErr(url) # nil THEN NewRequestErr(url)
    ELSE IF doErr # nil THEN doErr
    ELSE IF answer.status = StatusCreated THEN nil
    ELSE IF answer.readErr # nil
    THEN "failed to read response body: " \o answer.readErr
    ELSE "failed to create repository, status code: " \o Itoa(answer.status)
             \o ", response: " \o answer.body

\* what the template endpoint may answer to a generation of `name`
GitAnswers(name) ==
    GitFailures \cup (IF name \in gitRepos THEN {} ELSE {GitCreated})

NoAnswer == [status |-> 0, body |-> "", readErr |-> nil]

\* the three ways a CreateGitRepository call can go: no token, no transport (the
\* only way with an empty template URL), an answer
GitAttempts(cfg) ==
    [tokenErr : TokenErrs, doErr : {nil}, answer : {NoAnswer}]
        \cup (IF cfg.TemplateURL = ""
              THEN [tokenErr : {nil}, doErr : {NoSchemeErr}, answer : {NoAnswer}]
              ELSE [tokenErr : {nil}, doErr : TransportErrs, answer : {NoAnswer}]
                     \cup [tokenErr : {nil}, doErr : {nil}, answer : GitAnswers(cfg.Name)])

\* the same branch without its return: the error is written and the handler goes on
CreateGitRepositoryFailed_NoReturn(r, err) ==
    /\ resp' = [resp EXCEPT
           ![r] = Append(@, HttpError("Failed to create Git repository: " \o err,
                                      StatusInternalServerError))]
    /\ pc' = [pc EXCEPT ![r] = "Sleep"]

\* webserver.go 78-81: the branch taken when CreateGitRepository fails
CreateGitRepositoryFailed(r, err) ==
    Return(r, HttpError("Failed to create Git repository: " \o err,
                        StatusInternalServerError))

\* webserver.go 78-81
CreateGitRepository(r) ==
    /\ pc[r] = "CreateGitRepository"
    /\ \E a \in GitAttempts(config[r]) :
        LET err == CreateGitRepositoryErr(a.tokenErr, config[r].TemplateURL, a.doErr,
                                         a.answer)
        IN  /\ Log(r, "CreateGitRepository", config[r].Name, err)
            /\ answers' = [answers EXCEPT
                   ![r] = IF a.answer = NoAnswer THEN @ ELSE Append(@, a.answer)]
            /\ IF err # nil
               THEN /\ CreateGitRepositoryFailed(r, err)
                    /\ UNCHANGED gitRepos
               ELSE /\ Goto(r, "Sleep")
                    /\ gitRepos' = gitRepos \cup {config[r].Name}
    /\ UNCHANGED <<req, description, config, ecrRepos, cacheVars, workflowVars>>

\* a settle delay that never ends
Sleep_Forever(r) ==
    /\ pc[r] = "Sleep"
    /\ UNCHANGED vars

\* a settle delay that is skipped: the handler goes straight on to the clone
Sleep_Skipped(r) ==
    /\ pc[r] = "Sleep"
    /\ Goto(r, "CloneAndPushRepo")
    /\ UNCHANGED <<req, description, config, calls, answers, ecrRepos, gitRepos,
                   cacheVars, workflowVars>>

\* a settle delay that goes back to the creation instead of on to the clone
Sleep_Retry(r) ==
    /\ pc[r] = "Sleep"
    /\ Log(r, "Sleep", "20s", nil)
    /\ Goto(r, "CreateGitRepository")
    /\ UNCHANGED <<req, description, config, answers, ecrRepos, gitRepos, cacheVars, workflowVars>>

\* webserver.go 83-84: time.Sleep(20 * time.Second)
Sleep(r) ==
    /\ pc[r] = "Sleep"
    /\ Log(r, "Sleep", "20s", nil)
    /\ Goto(r, "CloneAndPushRepo")
    /\ UNCHANGED <<req, description, config, answers, ecrRepos, gitRepos, cacheVars, workflowVars>>

\* the failure branch answering as the success path does
CloneAndPushRepoFailed_OK(r, err) ==
    /\ Return(r, HttpOK)
    /\ UNCHANGED <<ecrRepos, gitRepos>>

\* the failure branch without its return: the success answer follows the error
CloneAndPushRepoFailed_FallThrough(r, err) ==
    /\ resp' = [resp EXCEPT
           ![r] = @ \o << HttpError("Failed to clone and push repository: " \o err,
                                    StatusInternalServerError),
                          HttpOK >>]
    /\ pc' = [pc EXCEPT ![r] = "returned"]
    /\ UNCHANGED <<ecrRepos, gitRepos>>

\* the failure branch with a compensating teardown of what the request created
CloneAndPushRepoFailed_Rollback(r, err) ==
    /\ Return(r, HttpError("Failed to clone and push repository: " \o err,
                           StatusInternalServerError))
    /\ ecrRepos' = ecrRepos \ {req[r].body.RepoName}
    /\ gitRepos' = gitRepos \ {req[r].body.RepoName}

\* webserver.go 87-90: the branch taken when CloneAndPushRepoFunc fails
CloneAndPushRepoFailed(r, err) ==
    /\ Return(r, HttpError("Failed to clone and push repository: " \o err,
                           StatusInternalServerError))
    /\ UNCHANGED <<ecrRepos, gitRepos>>

\* webserver.go 86-93: CloneAndPushRepoFunc(req.RepoName), then the success answer
CloneAndPushRepo(r) ==
    /\ pc[r] = "CloneAndPushRepo"
    /\ \E err \in {nil} \cup CloneErrs :
        /\ Log(r, "CloneAndPushRepo", req[r].body.RepoName, err)
        /\ IF err # nil
           THEN CloneAndPushRepoFailed(r, err)
           ELSE /\ Return(r, HttpOK)
                /\ UNCHANGED <<ecrRepos, gitRepos>>
    /\ UNCHANGED <<req, description, config, answers, cacheVars, workflowVars>>

\* one step of the goroutine serving request r
Handler(r) ==
    \/ Receive(r)
    \/ CreateECRClient(r)
    \/ CreateRepo(r)
    \/ BuildConfig(r)
    \/ CreateGitRepository(r)
    \/ Sleep(r)
    \/ CloneAndPushRepo(r)

(***************************************************************************)
(* FetchSecretValue and secretCache (part_001, 59-113).                    *)
(***************************************************************************)
\* a SecretString: well-formed flat JSON given by its members in order, or not
Secret(members) == [wellformed |-> TRUE, members |-> members]
Malformed == [wellformed |-> FALSE, members |-> <<>>]
\* the bundle with both keys; one with a new token, written twice, and no
\* template URL; and a string that is not JSON
SecretStrings ==
    { Secret(<< <<"GITHUB_TOKEN", "token-1">>, <<"TEMPLATE_URL", "url-1">> >>),
      Secret(<< <<"GITHUB_TOKEN", "token-0">>, <<"GITHUB_TOKEN", "token-2">> >>),
      Malformed }
InitialSecret ==
    Secret(<< <<"GITHUB_TOKEN", "token-1">>, <<"TEMPLATE_URL", "url-1">> >>)
\* the keys callers ask for: the two the program uses and one no bundle holds
Keys == {"GITHUB_TOKEN", "TEMPLATE_URL", "INVALID_KEY"}
ConfigErrs == {"config load error"}
FetchErrs == {"error fetching secret"}
UnmarshalErr == "invalid character 'i' looking for beginning of value"

\* make(map[string]string)
EmptyMap == [k \in {} |-> ""]

\* json.Unmarshal into map[string]string: every member is stored under its key, a
\* later member replacing an earlier one of the same key
RECURSIVE UnmarshalMembers(_)
UnmarshalMembers(members) ==
    IF members = <<>> THEN EmptyMap
    ELSE LET n == Len(members)
             init == UnmarshalMembers(SubSeq(members, 1, n - 1))
             k == members[n][1]
         IN  [j \in DOMAIN init \cup {k} |-> IF j = k THEN members[n][2] ELSE init[j]]

\* a parse that reports no error for a string that is not JSON
Unmarshal_Lenient(secret) ==
    [data |-> IF secret.wellformed THEN UnmarshalMembers(secret.members)
              ELSE EmptyMap,
     err |-> nil]

Unmarshal(secret) ==
    IF secret.wellformed
    THEN [data |-> UnmarshalMembers(secret.members), err |-> nil]
    ELSE [data |-> EmptyMap, err |-> UnmarshalErr]

\* a lookup that never finds the key
CacheLookup_Miss(c, k) == [found |-> FALSE, value |-> ""]

\* part_001 66: value, found := secretCache.data[key]
CacheLookup(c, k) ==
    IF k \in DOMAIN c THEN [found |-> TRUE, value |-> c[k]]
    ELSE [found |-> FALSE, value |-> ""]

\* a merge that stores nothing
CacheMerge_Nothing(c, data, k) == c

\* a merge that also records, with the empty value, a key the map fetched lacks
CacheMerge_Negative(c, data, k) ==
    [j \in DOMAIN c \cup DOMAIN data \cup {k} |->
        IF j \in DOMAIN data THEN data[j] ELSE IF j \in DOMAIN c THEN c[j] ELSE ""]

\* a merge that is made only when the map fetched holds the key asked for
CacheMerge_IfFound(c, data, k) ==
    IF k \in DOMAIN data
    THEN [j \in DOMAIN c \cup DOMAIN data |-> IF j \in DOMAIN data THEN data[j] ELSE c[j]]
    ELSE c

\* a merge that stores only the key that was asked for
CacheMerge_OnlyKey(c, data, k) ==
    IF k \in DOMAIN data
    THEN [j \in DOMAIN c \cup {k} |-> IF j = k THEN data[k] ELSE c[j]]
    ELSE c

\* part_001 94-96: for k, v := range secretData { secretCache.data[k] = v }
\* (k, the key asked for, plays no part)
CacheMerge(c, data, k) ==
    [j \in DOMAIN c \cup DOMAIN data |-> IF j \in DOMAIN data THEN data[j] ELSE c[j]]

NoCall == [key |-> "", hit |-> FALSE, loads |-> 0, gets |-> 0]

InitCache ==
    /\ cpc = [p \in Callers |-> "idle"]
    /\ cur = [p \in Callers |-> NoCall]
    /\ secretData = [p \in Callers |-> EmptyMap]
    /\ lock = 0
    /\ cache = EmptyMap
    /\ store = InitialSecret
    /\ hist = [p \in Callers |-> <<>>]
    /\ started = 0

\* FetchSecretValue returns (value, err): the call is over, its locals are gone
ReturnValue(p, value, err) ==
    /\ hist' = [hist EXCEPT
           ![p] = Append(@, [key |-> cur[p].key, value |-> value, err |-> err,
                             hit |-> cur'[p].hit, loads |-> cur'[p].loads,
                             gets |-> cur'[p].gets, data |-> secretData[p],
                             stored |-> cpc[p] = "Merge"])]
    /\ cpc' = [cpc EXCEPT ![p] = "idle"]
    /\ secretData' = [secretData EXCEPT ![p] = EmptyMap]

\* a goroutine calls FetchSecretValue(k)
StartCall(p) ==
    /\ cpc[p] = "idle"
    /\ started < MaxCalls
    /\ \E k \in Keys : cur' = [cur EXCEPT ![p] = [NoCall EXCEPT !.key = k]]
    /\ started' = started + 1
    /\ cpc' = [cpc EXCEPT ![p] = "Lock1"]
    /\ UNCHANGED <<secretData, lock, cache, store, hist, handlerVars, workflowVars>>

\* part_001 65: secretCache.Lock()
Lock1(p) ==
    /\ cpc[p] = "Lock1"
    /\ lock = 0
    /\ lock' = p
    /\ cpc' = [cpc EXCEPT ![p] = "Check"]
    /\ UNCHANGED <<cur, secretData, cache, store, hist, started, handlerVars, workflowVars>>

\* the hit branch without its Unlock
CacheHit_NoUnlock(p, value) ==
    /\ cur' = [cur EXCEPT ![p].hit = TRUE]
    /\ UNCHANGED lock
    /\ ReturnValue(p, value, nil)

\* part_001 66-69: found: Unlock and return the cached value
CacheHit(p, value) ==
    /\ cur' = [cur EXCEPT ![p].hit = TRUE]
    /\ lock' = 0
    /\ ReturnValue(p, value, nil)

\* the miss branch without its Unlock
CacheMiss_NoUnlock(p) ==
    /\ UNCHANGED lock
    /\ cpc' = [cpc EXCEPT ![p] = "LoadDefaultConfig"]
    /\ UNCHANGED <<cur, secretData, hist>>

\* part_001 70: not found: Unlock and go on to the remote fetch
CacheMiss(p) ==
    /\ lock' = 0
    /\ cpc' = [cpc EXCEPT ![p] = "LoadDefaultConfig"]
    /\ UNCHANGED <<cur, secretData, hist>>

\* part_001 66-70: the cache is read under the lock
Check(p) ==
    /\ cpc[p] = "Check"
    /\ LET l == CacheLookup(cache, cur[p].key)
       IN  IF l.found THEN CacheHit(p, l.value) ELSE CacheMiss(p)
    /\ UNCHANGED <<cache, store, started, handlerVars, workflowVars>>

\* part_001 72-75: configLoader.LoadDefaultConfig
LoadDefaultConfig(p) ==
    /\ cpc[p] = "LoadDefaultConfig"
    /\ cur' = [cur EXCEPT ![p].loads = @ + 1]
    /\ \E err \in {nil} \cup ConfigErrs :
        IF err # nil
        THEN ReturnValue(p, "", "error loading AWS config: " \o err)
        ELSE /\ cpc' = [cpc EXCEPT ![p] = "GetSecretValue"]
             /\ UNCHANGED <<secretData, hist>>
    /\ UNCHANGED <<lock, cache, store, started, handlerVars, workflowVars>>

\* a remote fetch whose failure empties the cache
GetSecretValue_Invalidate(p) ==
    /\ cpc[p] = "GetSecretValue"
    /\ cur' = [cur EXCEPT ![p].gets = @ + 1]
    /\ \E err \in {nil} \cup FetchErrs :
        IF err # nil
        THEN /\ ReturnValue(p, "", "error fetching secret value: " \o err)
             /\ cache' = EmptyMap
        ELSE /\ UNCHANGED cache
             /\ LET u == Unmarshal(store)
                IN  IF u.err # nil
                    THEN ReturnValue(p, "", "error unmarshalling secret value: " \o u.err)
                    ELSE /\ secretData' = [secretData EXCEPT ![p] = u.data]
                         /\ cpc' = [cpc EXCEPT ![p] = "Lock2"]
                         /\ UNCHANGED hist
    /\ UNCHANGED <<lock, store, started, handlerVars, workflowVars>>

\* part_001 77-91: client.GetSecretValue, then json.Unmarshal of the SecretString
GetSecretValue(p) ==
    /\ cpc[p] = "GetSecretValue"
    /\ cur' = [cur EXCEPT ![p].gets = @ + 1]
    /\ \E err \in {nil} \cup FetchErrs :
        IF err # nil
        THEN ReturnValue(p, "", "error fetching secret value: " \o err)
        ELSE LET u == Unmarshal(store)
             IN  IF u.err # nil
                 THEN ReturnValue(p, "", "error unmarshalling secret value: " \o u.err)
                 ELSE /\ secretData' = [secretData EXCEPT ![p] = u.data]
                      /\ cpc' = [cpc EXCEPT ![p] = "Lock2"]
                      /\ UNCHANGED hist
    /\ UNCHANGED <<lock, cache, store, started, handlerVars, workflowVars>>

\* part_001 93: secretCache.Lock()
Lock2(p) ==
    /\ cpc[p] = "Lock2"
    /\ lock = 0
    /\ lock' = p
    /\ cpc' = [cpc EXCEPT ![p] = "Merge"]
    /\ UNCHANGED <<cur, secretData, cache, store, hist, started, handlerVars, workflowVars>>

\* part_001 94-104: the map is merged under the lock, the lock released, and the
\* key looked up in the map just fetched
Merge(p) ==
    /\ cpc[p] = "Merge"
    /\ cache' = CacheMerge(cache, secretData[p], cur[p].key)
    /\ lock' = 0
    /\ UNCHANGED cur
    /\ IF cur[p].key \in DOMAIN secretData[p]
       THEN ReturnValue(p, secretData[p][cur[p].key], nil)
       ELSE ReturnValue(p, "", "secret key " \o cur[p].key \o " not found")
    /\ UNCHANGED <<store, started, handlerVars, workflowVars>>

\* the secret is changed in Secrets Manager
PutSecret ==
    /\ \E s \in SecretStrings \ {store} : store' = s
    /\ UNCHANGED <<cpc, cur, secretData, lock, cache, hist, started, handlerVars, workflowVars>>

\* one step of a caller inside FetchSecretValue
InCall(p) ==
    \/ Lock1(p)
    \/ Check(p)
    \/ LoadDefaultConfig(p)
    \/ GetSecretValue(p)
    \/ Lock2(p)
    \/ Merge(p)

(***************************************************************************)
(* CloneAndPushRepo and FetchGitHubUsername (clone_push.go).               *)
(*                                                                         *)
(* A file's content is the sequence of its pieces: the piece "\n" is a     *)
(* line break, every other piece is text without a line break.  A line is  *)
(* the sequence of the pieces between two breaks, and its text their       *)
(* concatenation.  A text that begins with "module" has "module" as its    *)
(* first piece, and no other piece begins with it.                         *)
(***************************************************************************)
NL == "\n"

\* strings.Split(s, "\n"): the lines between the breaks; one line, possibly
\* empty, when there is no break
RECURSIVE Split(_)
Split(content) ==
    IF \A i \in DOMAIN content : content[i] # NL THEN << content >>
    ELSE LET i == CHOOSE i \in DOMAIN content :
                      content[i] = NL /\ \A j \in 1..(i-1) : content[j] # NL
         IN  << SubSeq(content, 1, i - 1) >>
                 \o Split(SubSeq(content, i + 1, Len(content)))

\* strings.Join(lines, "\n")
RECURSIVE Join(_)
Join(lines) ==
    IF lines = <<>> THEN <<>>
    ELSE IF Len(lines) = 1 THEN lines[1]
    ELSE lines[1] \o << NL >> \o Join(Tail(lines))

\* strings.HasPrefix(line, prefix), for a prefix that is one piece
HasPrefix(line, prefix) == Len(line) > 0 /\ line[1] = prefix

\* fmt.Sprintf("module github.com/%s/%s", username, repoName)
ModuleLine(username, repoName) ==
    << "module", " github.com/" \o username \o "/" \o repoName >>

\* a loop that adds the module line at the end when no line begins with "module"
RECURSIVE ReplaceModule_OrAppend(_, _, _, _)
ReplaceModule_OrAppend(lines, i, username, repoName) ==
    IF i > Len(lines) THEN Append(lines, ModuleLine(username, repoName))
    ELSE IF HasPrefix(lines[i], "module")
    THEN [lines EXCEPT ![i] = ModuleLine(username, repoName)]
    ELSE ReplaceModule_OrAppend(lines, i + 1, username, repoName)

\* the loop without its break: every line that begins with "module" is replaced
RECURSIVE ReplaceModule_NoBreak(_, _, _, _)
ReplaceModule_NoBreak(lines, i, username, repoName) ==
    IF i > Len(lines) THEN lines
    ELSE ReplaceModule_NoBreak(
             IF HasPrefix(lines[i], "module")
             THEN [lines EXCEPT ![i] = ModuleLine(username, repoName)]
             ELSE lines,
             i + 1, username, repoName)

\* clone_push.go 79-84: the loop over the lines, from line i on: the first line
\* that begins with "module" is replaced, and the loop ends there
RECURSIVE ReplaceModule(_, _, _, _)
ReplaceModule(lines, i, username, repoName) ==
    IF i > Len(lines) THEN lines
    ELSE IF HasPrefix(lines[i], "module")
    THEN [lines EXCEPT ![i] = ModuleLine(username, repoName)]
    ELSE ReplaceModule(lines, i + 1, username, repoName)

\* clone_push.go 78-85: what is written to go.mod, given what was read from it
UpdateGoMod(input, username, repoName) ==
    Join(ReplaceModule(Split(input), 1, username, repoName))

\* net/http status of a rejected token
StatusUnauthorized == 401
\* what the "who am I" endpoint may answer
UserStatuses == {StatusOK, StatusCreated, StatusUnauthorized, StatusInternalServerError}
UserBodies == { [decodes |-> TRUE, login |-> "mocked_user"],
                [decodes |-> FALSE, login |-> ""] }
DecodeErr == "invalid character 'i' looking for beginning of value"

\* an identity lookup that takes every 2xx answer for a success
FetchGitHubUsername_Any2xx(doErr, status, body) ==
    IF doErr # nil THEN [login |-> "", err |-> doErr]
    ELSE IF status < 200 \/ status > 299
    THEN [login |-> "",
          err |-> "failed to fetch GitHub username, status code: " \o Itoa(status)]
    ELSE IF ~body.decodes THEN [login |-> "", err |-> DecodeErr]
    ELSE [login |-> body.login, err |-> nil]

\* an identity lookup that does not look at the status of the answer
FetchGitHubUsername_NoStatusCheck(doErr, status, body) ==
    IF doErr # nil THEN [login |-> "", err |-> doErr]
    ELSE IF ~body.decodes THEN [login |-> "", err |-> DecodeErr]
    ELSE [login |-> body.login, err |-> nil]

\* func FetchGitHubUsername(token): doErr is what httpClient.Do returned, status
\* and body the answer it got
FetchGitHubUsername(doErr, status, body) ==
    IF doErr # nil THEN [login |-> "", err |-> doErr]
    ELSE IF status # StatusOK
    THEN [login |-> "",
          err |-> "failed to fetch GitHub username, status code: " \o Itoa(status)]
    ELSE IF ~body.decodes THEN [login |-> "", err |-> DecodeErr]
    ELSE [login |-> body.login, err |-> nil]

\* a directory is the sequence of names from the root to it
Root == <<>>
\* where the server was started
StartDir == << "srv" >>
Parent(dir) == IF dir = Root THEN Root ELSE SubSeq(dir, 1, Len(dir) - 1)
\* dir is d or lies below it
Within(dir, d) == Len(d) <= Len(dir) /\ SubSeq(dir, 1, Len(d)) = d

\* the name request r provisions: the registry admits a name once, so the
\* requests that reach CloneAndPushRepo carry different names
RepoNameOf(r) == "repo-" \o Itoa(r)
\* the go.mod of a repository just generated from the template
TemplateGoMod == << "module", " example.com/testrepo", NL >>

\* the outcomes of FetchSecretToken
Tokens == { [value |-> "mocked_token", err |-> nil] }
              \cup { [value |-> "", err |-> e] : e \in TokenErrs }
\* a git command that exits with a failure (cmd.Run's *exec.ExitError)
ExitErr == "exit status 1"
\* a file system call refused by the system
IOErr == "permission denied"
NoEnt(op, path) == op \o " " \o path \o ": no such file or directory"

\* the value of ret while the call has not returned
Pending == "pending"
NoJob ==
    [pc |-> "idle", repoName |-> "", token |-> "", username |-> "", status |-> 0,
     input |-> <<>>, clone |-> Root, entry |-> Root, steps |-> <<>>,
     ret |-> Pending]

InitClone ==
    /\ job = [r \in Reqs |-> NoJob]
    /\ cwd = StartDir
    /\ dirs = {}
    /\ gomod = [d \in {} |-> <<>>]

\* the step ran without error and the call goes on to the next
GoOn(j, step, next) ==
    [j EXCEPT !.pc = next, !.steps = Append(@, [step |-> step, err |-> nil])]

\* if err != nil { return fmt.Errorf(prefix + "%v", err) }: the call is over, and
\* what it read and where it was entered are gone with it
Fail(j, step, prefix, err) ==
    [j EXCEPT !.pc = "returned",
              !.input = <<>>,
              !.entry = Root,
              !.steps = Append(@, [step |-> step, err |-> err]),
              !.ret = prefix \o err]

\* the handler calls CloneAndPushRepo(req.RepoName)
StartClone(r) ==
    /\ job[r].pc = "idle"
    /\ job' = [job EXCEPT ![r] = [@ EXCEPT !.pc = "FetchSecretToken",
                                         !.repoName = RepoNameOf(r)]]
    /\ UNCHANGED <<cwd, dirs, gomod, pureVars, handlerVars, cacheVars>>

\* clone_push.go 46-49: gitHubService.FetchSecretToken()
FetchToken(r) ==
    /\ job[r].pc = "FetchSecretToken"
    /\ \E t \in Tokens :
        job' = [job EXCEPT ![r] =
                   IF t.err # nil
                   THEN Fail(@, "FetchSecretToken", "error fetching GitHub token: ", t.err)
                   ELSE [GoOn(@, "FetchSecretToken", "FetchGitHubUsername")
                            EXCEPT !.token = t.value]]
    /\ UNCHANGED <<cwd, dirs, gomod, pureVars, handlerVars, cacheVars>>

\* clone_push.go 52-55: gitHubService.FetchGitHubUsername(token)
FetchUsername(r) ==
    /\ job[r].pc = "FetchGitHubUsername"
    /\ \E doErr \in {nil} \cup TransportErrs, status \in UserStatuses \cup {0},
          body \in UserBodies :
        \* an answer has a status; a failed transport has no answer
        /\ (doErr = nil) = (status # 0)
        /\ LET u == FetchGitHubUsername(doErr, status, body)
           IN  job' = [job EXCEPT ![r] =
                          IF u.err # nil
                          THEN [Fail(@, "FetchGitHubUsername",
                                     "error fetching GitHub username: ", u.err)
                                   EXCEPT !.status = status]
                          ELSE [GoOn(@, "FetchGitHubUsername", "GitClone")
                                   EXCEPT !.username = u.login, !.status = status]]
    /\ UNCHANGED <<cwd, dirs, gomod, pureVars, handlerVars, cacheVars>>

\* clone_push.go 58-64: git clone https://<token>@github.com/<username>/<repoName>.git
\* run in the working directory: it makes the directory <repoName> there
GitClone(r) ==
    /\ job[r].pc = "GitClone"
    /\ LET target == cwd \o << job[r].repoName >>
       IN  \E err \in {nil, ExitErr} :
             IF target \in dirs \/ err # nil
             THEN /\ job' = [job EXCEPT ![r] =
                                Fail(@, "GitClone", "error cloning repository: ", ExitErr)]
                  /\ UNCHANGED <<dirs, gomod>>
             ELSE /\ job' = [job EXCEPT ![r] =
                                [GoOn(@, "GitClone", "ChdirRepo") EXCEPT !.clone = target]]
                  /\ dirs' = dirs \cup {target}
                  /\ gomod' = [d \in DOMAIN gomod \cup {target} |->
                                  IF d = target THEN TemplateGoMod ELSE gomod[d]]
    /\ UNCHANGED <<cwd, pureVars, handlerVars, cacheVars>>

\* clone_push.go 67-69: chdir(repoName), relative to the working directory
ChdirRepo(r) ==
    /\ job[r].pc = "ChdirRepo"
    /\ LET target == cwd \o << job[r].repoName >>
           prefix == "error changing directory to cloned repository: "
       IN  \E err \in {nil, IOErr} :
             IF target \notin dirs
             THEN /\ job' = [job EXCEPT ![r] =
                        Fail(@, "ChdirRepo", prefix, NoEnt("chdir", job[r].repoName))]
                  /\ UNCHANGED cwd
             ELSE IF err # nil
             THEN /\ job' = [job EXCEPT ![r] = Fail(@, "ChdirRepo", prefix, err)]
                  /\ UNCHANGED cwd
             ELSE /\ job' = [job EXCEPT ![r] = GoOn(@, "ChdirRepo", "ReadFile")]
                  /\ cwd' = target
    /\ UNCHANGED <<dirs, gomod, pureVars, handlerVars, cacheVars>>

\* clone_push.go 72-76: readFile("go.mod"), in the working directory
ReadFile(r) ==
    /\ job[r].pc = "ReadFile"
    /\ \E err \in {nil, IOErr} :
         job' = [job EXCEPT ![r] =
                    IF cwd \notin DOMAIN gomod
                    THEN Fail(@, "ReadFile", "error reading go.mod file: ",
                              NoEnt("open", "go.mod"))
                    ELSE IF err # nil
                    THEN Fail(@, "ReadFile", "error reading go.mod file: ", err)
                    ELSE [GoOn(@, "ReadFile", "WriteFile") EXCEPT !.input = gomod[cwd]]]
    /\ UNCHANGED <<cwd, dirs, gomod, pureVars, handlerVars, cacheVars>>

\* clone_push.go 78-88: the module line is replaced and go.mod written (created,
\* if the working directory has none); what was read is not used again
WriteFile(r) ==
    /\ job[r].pc = "WriteFile"
    /\ LET output == UpdateGoMod(job[r].input, job[r].username, job[r].repoName)
       IN  \E err \in {nil, IOErr} :
             IF err # nil
             THEN /\ job' = [job EXCEPT ![r] =
                        Fail(@, "WriteFile", "error writing to go.mod file: ", err)]
                  /\ UNCHANGED gomod
             ELSE /\ job' = [job EXCEPT ![r] =
                        [GoOn(@, "WriteFile", "GitAdd") EXCEPT !.input = <<>>]]
                  /\ gomod' = [d \in DOMAIN gomod \cup {cwd} |->
                                  IF d = cwd THEN output ELSE gomod[d]]
    /\ UNCHANGED <<cwd, dirs, pureVars, handlerVars, cacheVars>>

\* clone_push.go 91-96: git add go.mod, run in the working directory (of a git
\* command the model keeps where it ran and how it ended, not git's objects)
GitAdd(r) ==
    /\ job[r].pc = "GitAdd"
    /\ \E err \in {nil, ExitErr} :
         job' = [job EXCEPT ![r] =
                    IF err # nil
                    THEN Fail(@, "GitAdd", "error adding go.mod file to git: ", err)
                    ELSE GoOn(@, "GitAdd", "GitCommit")]
    /\ UNCHANGED <<cwd, dirs, gomod, pureVars, handlerVars, cacheVars>>

\* a commit that is tried again when it fails
GitCommit_Retry(r) ==
    /\ job[r].pc = "GitCommit"
    /\ \E err \in {nil, ExitErr} :
         job' = [job EXCEPT ![r] =
                    IF err # nil
                    THEN [@ EXCEPT !.steps = Append(@, [step |-> "GitCommit", err |-> err])]
                    ELSE GoOn(@, "GitCommit", "GitPush")]
    /\ UNCHANGED <<cwd, dirs, gomod, pureVars, handlerVars, cacheVars>>

\* clone_push.go 98-103: git commit -m "Update go.mod module path"
GitCommit(r) ==
    /\ job[r].pc = "GitCommit"
    /\ \E err \in {nil, ExitErr} :
         job' = [job EXCEPT ![r] =
                    IF err # nil
                    THEN Fail(@, "GitCommit", "error committing changes: ", err)
                    ELSE GoOn(@, "GitCommit", "GitPush")]
    /\ UNCHANGED <<cwd, dirs, gomod, pureVars, handlerVars, cacheVars>>

\* clone_push.go 105-110: git push
GitPush(r) ==
    /\ job[r].pc = "GitPush"
    /\ \E err \in {nil, ExitErr} :
         job' = [job EXCEPT ![r] =
                    IF err # nil
                    THEN Fail(@, "GitPush", "error pushing changes: ", err)
                    ELSE GoOn(@, "GitPush", "ChdirParent")]
    /\ UNCHANGED <<cwd, dirs, gomod, pureVars, handlerVars, cacheVars>>

\* a change back that reports its failure as the change into the clone does
ChdirParent_SameMessage(r) ==
    /\ job[r].pc = "ChdirParent"
    /\ \E err \in {nil, IOErr} :
         IF err # nil
         THEN /\ job' = [job EXCEPT ![r] =
                    Fail(@, "ChdirParent",
                         "error changing directory to cloned repository: ", err)]
              /\ UNCHANGED cwd
         ELSE /\ job' = [job EXCEPT ![r] = GoOn(@, "ChdirParent", "RemoveAll")]
              /\ cwd' = Parent(cwd)
    /\ UNCHANGED <<dirs, gomod, pureVars, handlerVars, cacheVars>>

\* clone_push.go 113-115: chdir("..")
ChdirParent(r) ==
    /\ job[r].pc = "ChdirParent"
    /\ \E err \in {nil, IOErr} :
         IF err # nil
         THEN /\ job' = [job EXCEPT ![r] =
                    Fail(@, "ChdirParent",
                         "error changing back to the parent directory: ", err)]
              /\ UNCHANGED cwd
         ELSE /\ job' = [job EXCEPT ![r] = GoOn(@, "ChdirParent", "RemoveAll")]
              /\ cwd' = Parent(cwd)
    /\ UNCHANGED <<dirs, gomod, pureVars, handlerVars, cacheVars>>

\* a removal that is left out: the call returns nil with the clone in place
RemoveAll_Skipped(r) ==
    /\ job[r].pc = "RemoveAll"
    /\ job' = [job EXCEPT ![r] = [@ EXCEPT !.pc = "returned", !.ret = nil]]
    /\ UNCHANGED <<cwd, dirs, gomod, pureVars, handlerVars, cacheVars>>

\* clone_push.go 118-122: removeAll(repoName), relative to the working directory
\* (no error when there is nothing of that name), then return nil
RemoveAll(r) ==
    /\ job[r].pc = "RemoveAll"
    /\ LET target == cwd \o << job[r].repoName >>
       IN  \E err \in {nil, IOErr} :
             IF err # nil
             THEN /\ job' = [job EXCEPT ![r] =
                        Fail(@, "RemoveAll", "error removing the cloned repository: ", err)]
                  /\ UNCHANGED <<dirs, gomod>>
             ELSE /\ job' = [job EXCEPT ![r] =
                        [GoOn(@, "RemoveAll", "returned")
                             EXCEPT !.ret = nil, !.entry = Root]]
                  /\ dirs' = {d \in dirs : ~Within(d, target)}
                  /\ gomod' = [d \in {x \in DOMAIN gomod : ~Within(x, target)} |-> gomod[d]]
    /\ UNCHANGED <<cwd, pureVars, handlerVars, cacheVars>>

\* one step of request r inside CloneAndPushRepo
Workflow(r) ==
    \/ FetchToken(r)
    \/ FetchUsername(r)
    \/ GitClone(r)
    \/ ChdirRepo(r)
    \/ ReadFile(r)
    \/ WriteFile(r)
    \/ GitAdd(r)
    \/ GitCommit(r)
    \/ GitPush(r)
    \/ ChdirParent(r)
    \/ RemoveAll(r)

\* the lines a go.mod may have: none begins with "module" but those whose first
\* piece it is
GoModLines ==
    { <<>>,
      << "module", " example.com/old" >>,
      << "module", "s are listed below" >>,
      << "go 1.22" >>,
      << "// module path" >> }
\* the longest go.mod, in lines
MaxLines == 3
LinesOfLen(n) == [1..n -> GoModLines]
Usernames == {"mocked_user", "acme-bot"}
NoRewrite ==
    [lines |-> << <<>> >>, input |-> <<>>, username |-> "", repoName |-> "",
     output |-> <<>>, done |-> FALSE, file |-> <<>>, next |-> "", ret |-> Pending]

\* the specifications of the handler, the cache and the workflow rewrite nothing
InitRewrite == rewrite = NoRewrite

\* a go.mod of one to MaxLines lines, an identity and a repository name
DrawRewrite ==
    \E n \in 1..MaxLines : \E ls \in LinesOfLen(n), u \in Usernames, name \in RepoNames :
        rewrite = [NoRewrite EXCEPT !.lines = ls, !.input = Join(ls), !.file = Join(ls),
                                    !.username = u, !.repoName = name]

\* clone_push.go 78-85, on the content drawn
RewriteGoMod ==
    /\ ~rewrite.done
    /\ rewrite' = [rewrite EXCEPT
           !.output = UpdateGoMod(rewrite.input, rewrite.username, rewrite.repoName),
           !.done = TRUE]
    /\ UNCHANGED <<cloneVars, gitVars, handlerVars, cacheVars>>

\* clone_push.go 86-91: the output is written to go.mod and the call goes on to
\* git add, or the write fails and the call returns its error
WriteGoMod ==
    /\ rewrite.done
    /\ rewrite.next = ""
    /\ \E err \in {nil, IOErr} :
         rewrite' = IF err # nil
                    THEN [rewrite EXCEPT !.next = "returned",
                                         !.ret = "error writing to go.mod file: " \o err]
                    ELSE [rewrite EXCEPT !.next = "GitAdd", !.file = rewrite.output]
    /\ UNCHANGED <<cloneVars, gitVars, handlerVars, cacheVars>>

(***************************************************************************)
(* config := DefaultRepoConfig(repoName, description) followed by          *)
(* gitClient.CreateGitRepository(config) (webserver.go 75-78), on a        *)
(* GitClient whose FetchSecretFunc and HTTPClient are given                *)
(* (gitsetup_test.go 180-185).                                             *)
(***************************************************************************)
\* the template URLs a configuration may carry: well-formed, malformed, empty
GitURLs == TemplateURLs \cup MalformedURLs \cup {""}
\* what HTTPClient.Do returns when it is called: an error, or an answer
DoResults(url) ==
    [err : TransportErrs \cup (IF url = "" THEN {NoSchemeErr} ELSE {}),
     answer : {NoAnswer}]
        \cup [err : {nil},
              answer : [status : {StatusOK, StatusCreated, StatusBadRequest,
                                  StatusInternalServerError},
                        body : {"", "Bad Request", "name already exists"},
                        readErr : {nil} \cup ReadErrs]]

NoGit ==
    [pc |-> "idle", repoName |-> "", description |-> "",
     tmpl |-> [value |-> "", err |-> nil], config |-> EmptyRepoConfig,
     configErr |-> nil, token |-> [value |-> "", err |-> nil],
     do |-> [err |-> nil, answer |-> NoAnswer], sent |-> 0, ret |-> Pending]

InitGit == git = NoGit

\* a name and a description, what FetchTemplateURL returns, a token source and an
\* HTTP client
DrawGit ==
    \E name \in RepoNames \cup {""}, desc \in Descriptions, t \in Tokens,
       tmpl \in [value : GitURLs, err : {nil}] \cup [value : {""}, err : TemplateErrs] :
        \E d \in DoResults(tmpl.value) :
            git = [NoGit EXCEPT !.pc = "DefaultRepoConfig", !.repoName = name,
                                !.description = desc, !.tmpl = tmpl, !.token = t,
                                !.do = d]

\* config := DefaultRepoConfig(repoName, description)
CallDefaultRepoConfig ==
    /\ git.pc = "DefaultRepoConfig"
    /\ LET res == DefaultRepoConfig(git.repoName, git.description, git.tmpl)
       IN  git' = [git EXCEPT !.pc = "CreateGitRepository", !.config = res.config,
                              !.configErr = res.err]
    /\ UNCHANGED <<cloneVars, rewriteVars, handlerVars, cacheVars>>

\* a client that builds and sends the request whatever the token source said
RequestsSent_TokenLast(tokenErr, url) ==
    IF NewRequestErr(url) # nil THEN 0 ELSE 1

\* the calls of HTTPClient.Do one CreateGitRepository makes: none when the token
\* could not be fetched or the request could not be built, one otherwise
RequestsSent(tokenErr, url) ==
    IF tokenErr # nil THEN 0
    ELSE IF NewRequestErr(url) # nil THEN 0
    ELSE 1

\* err := gitClient.CreateGitRepository(config)
CallCreateGitRepository ==
    /\ git.pc = "CreateGitRepository"
    /\ git' = [git EXCEPT
           !.sent = RequestsSent(git.token.err, git.config.TemplateURL),
           !.ret = CreateGitRepositoryErr(git.token.err, git.config.TemplateURL,
                                          git.do.err, git.do.answer),
           !.pc = "done"]
    /\ UNCHANGED <<cloneVars, rewriteVars, handlerVars, cacheVars>>

Init == InitHandler /\ InitCache /\ InitClone /\ InitRewrite /\ InitGit

NextCache ==
    \/ \E p \in Callers : StartCall(p) \/ InCall(p)
    \/ PutSecret

SpecCache == Init /\ [][NextCache]_vars

Next == \E r \in Reqs : Handler(r)

Spec == Init /\ [][Next]_vars

NextClone == \E r \in Reqs : StartClone(r) \/ Workflow(r)

SpecClone == Init /\ [][NextClone]_vars

\* the handler calls CloneAndPushRepo(req.RepoName); the directory the process
\* is in at that moment is kept with the call, to compare it with the one the
\* call returns in
StartCloneAt(r) ==
    /\ job[r].pc = "idle"
    /\ job' = [job EXCEPT ![r] = [@ EXCEPT !.pc = "FetchSecretToken",
                                         !.repoName = RepoNameOf(r),
                                         !.entry = cwd]]
    /\ UNCHANGED <<cwd, dirs, gomod, pureVars, handlerVars, cacheVars>>

NextEntry == \E r \in Reqs : StartCloneAt(r) \/ Workflow(r)

SpecEntry == Init /\ [][NextEntry]_vars

(***************************************************************************)
(* The handler and the workflow it calls, as one thread per request: at    *)
(* webserver.go 87 the goroutine enters CloneAndPushRepo and comes back    *)
(* with its result.                                                        *)
(***************************************************************************)
\* webserver.go 87: the handler calls CloneAndPushRepoFunc(req.RepoName)
EnterCloneAndPushRepo(r) ==
    /\ pc[r] = "CloneAndPushRepo"
    /\ job[r].pc = "idle"
    /\ job' = [job EXCEPT ![r] = [@ EXCEPT !.pc = "FetchSecretToken",
                                         !.repoName = req[r].body.RepoName]]
    /\ UNCHANGED <<cwd, dirs, gomod, pureVars, handlerVars, cacheVars>>

\* webserver.go 87-93: CloneAndPushRepoFunc has returned; the error answer or the
\* success answer is written
LeaveCloneAndPushRepo(r) ==
    /\ pc[r] = "CloneAndPushRepo"
    /\ job[r].pc = "returned"
    /\ LET err == job[r].ret
       IN  /\ Log(r, "CloneAndPushRepo", req[r].body.RepoName, err)
           /\ IF err # nil
              THEN CloneAndPushRepoFailed(r, err)
              ELSE /\ Return(r, HttpOK)
                   /\ UNCHANGED <<ecrRepos, gitRepos>>
    /\ UNCHANGED <<req, description, config, answers, cacheVars, workflowVars>>

\* one step of the goroutine serving request r, the workflow included
Thread(r) ==
    \/ Receive(r)
    \/ CreateECRClient(r)
    \/ CreateRepo(r)
    \/ BuildConfig(r)
    \/ CreateGitRepository(r)
    \/ Sleep(r)
    \/ EnterCloneAndPushRepo(r)
    \/ Workflow(r)
    \/ LeaveCloneAndPushRepo(r)

NextLive == \E r \in LiveReqs : Thread(r)

\* every call a goroutine makes returns: a thread that can take a step takes one
SpecLive == Init /\ [][NextLive]_vars /\ \A r \in LiveReqs : WF_vars(Thread(r))

NextRewrite == RewriteGoMod \/ WriteGoMod

InitDraw == InitHandler /\ InitCache /\ InitClone /\ DrawRewrite /\ InitGit

SpecRewrite == InitDraw /\ [][NextRewrite]_vars

NextGit == CallDefaultRepoConfig \/ CallCreateGitRepository

InitGitDraw == InitHandler /\ InitCache /\ InitClone /\ InitRewrite /\ DrawGit

SpecGit == InitGitDraw /\ [][NextGit]_vars

(***************************************************************************)
(* What the call log and the responses say about one request.              *)
(***************************************************************************)
Entries(r, step) == {i \in DOMAIN calls[r] : calls[r][i].step = step}
Invoked(r, step) == Entries(r, step) # {}
Succeeded(r, step) == \E i \in Entries(r, step) : calls[r][i].err = nil
FailedAt(r, step) == \E i \in Entries(r, step) : calls[r][i].err # nil
ErrOf(r, step) == calls[r][CHOOSE i \in Entries(r, step) : calls[r][i].err # nil].err
ErrorAnswer(msg) == [status |-> StatusInternalServerError, body |-> msg \o "\n"]

\* the calls that enter a state of the orchestrator, in the order of the states
\* CreateRegistry, CreateTemplateRepo, Settle, CloneRewritePush
OrchestratorOrder == <<"CreateRepo", "CreateGitRepository", "Sleep", "CloneAndPushRepo">>
IsStateCall(c) == \E i \in DOMAIN OrchestratorOrder : c.step = OrchestratorOrder[i]
StateCalls(r) == SelectSeq(calls[r], IsStateCall)
\* the calls whose error the handler reads (DefaultRepoConfig's it does not)
IsCheckedCall(c) == IsStateCall(c) \/ c.step = "CreateECRClient"
AnsweredOK(r) == \E i \in DOMAIN resp[r] : resp[r][i].status = StatusOK

\* C1: if the registry repository creation fails, the request makes no later call
\* (no environment load, configuration, template repository creation, settle
\* delay or clone workflow), has returned, and its one answer is 500 with
\* "Failed to create ECR repository: <cause>".
C1_EcrFailureStops ==
    \A r \in Reqs :
        FailedAt(r, "CreateRepo") =>
            /\ \A s \in {"LoadEnv", "DefaultRepoConfig", "NewGitClient",
                         "CreateGitRepository", "Sleep", "CloneAndPushRepo"} :
                   ~Invoked(r, s)
            /\ pc[r] = "returned"
            /\ resp[r] = << ErrorAnswer("Failed to create ECR repository: "
                                            \o ErrOf(r, "CreateRepo")) >>

\* a request whose registry creation failed because the repository already exists
C1_Witness ==
    \E r \in Reqs :
        /\ FailedAt(r, "CreateRepo")
        /\ ErrOf(r, "CreateRepo") = EcrAlreadyExists
        /\ pc[r] = "returned"

C3_StatesInOrder ==
    \A r \in Reqs :
        LET t == StateCalls(r)
        IN  /\ Len(t) <= Len(OrchestratorOrder)
            /\ \A i \in DOMAIN t :
                   /\ t[i].step = OrchestratorOrder[i]
                   /\ i < Len(t) => t[i].err = nil
            /\ AnsweredOK(r) =>
                   /\ Len(t) = Len(OrchestratorOrder)
                   /\ pc[r] = "returned"
            /\ \A i \in DOMAIN calls[r] :
                   (IsCheckedCall(calls[r][i]) /\ calls[r][i].err # nil) =>
                       /\ i = Len(calls[r])
                       /\ pc[r] = "returned"

\* one request went through all four states to Done while another failed in
\* CreateTemplateRepo
C3_Witness ==
    \E r1, r2 \in Reqs :
        /\ r1 # r2
        /\ AnsweredOK(r1) /\ Len(StateCalls(r1)) = Len(OrchestratorOrder)
        /\ FailedAt(r2, "CreateGitRepository") /\ pc[r2] = "returned"

\* C4: the handler answers 200 "ECR and Git repositories created successfully"
\* only if, in that request, the registry creation, the template repository
\* creation, the settle delay and the clone workflow all returned without error.
C4_SuccessOnlyAfterAll ==
    \A r \in Reqs :
        (\E i \in DOMAIN resp[r] :
              resp[r][i].status = StatusOK \/ resp[r][i].body = SuccessBody) =>
            /\ \A s \in {"CreateECRClient", "CreateRepo", "CreateGitRepository",
                         "Sleep", "CloneAndPushRepo"} :
                   Succeeded(r, s) /\ ~FailedAt(r, s)
            /\ resp[r] = << [status |-> StatusOK, body |-> SuccessBody] >>

\* a request answered with the success message
C4_Witness ==
    \E r \in Reqs :
        /\ pc[r] = "returned"
        /\ resp[r] = << [status |-> StatusOK, body |-> SuccessBody] >>

\* the message prefix the handler gives each step whose error it reads
StepPrefix(step) ==
    CASE step = "CreateECRClient" -> "Failed to create ECR client: "
      [] step = "CreateRepo" -> "Failed to create ECR repository: "
      [] step = "CreateGitRepository" -> "Failed to create Git repository: "
      [] step = "CloneAndPushRepo" -> "Failed to clone and push repository: "

HandlerSteps ==
    {"CreateECRClient", "CreateRepo", "LoadEnv", "DefaultRepoConfig", "NewGitClient",
     "CreateGitRepository", "Sleep", "CloneAndPushRepo"}

\* C6: a request that failed made only creating calls, and the registry
\* repository and the source repository it created in an earlier, successful
\* step still exist once the failure is returned.
C6_NoRollback ==
    \A r \in Reqs :
        (pc[r] = "returned" /\ ~AnsweredOK(r)) =>
            /\ \A i \in DOMAIN calls[r] : calls[r][i].step \in HandlerSteps
            /\ Succeeded(r, "CreateRepo") => req[r].body.RepoName \in ecrRepos
            /\ Succeeded(r, "CreateGitRepository") => req[r].body.RepoName \in gitRepos

\* a request that failed in the clone workflow after creating both repositories,
\* which are still there
C6_Witness ==
    \E r \in Reqs :
        /\ FailedAt(r, "CloneAndPushRepo")
        /\ Succeeded(r, "CreateRepo") /\ Succeeded(r, "CreateGitRepository")
        /\ req[r].body.RepoName \in ecrRepos \cap gitRepos

\* C17: in every request that reaches the clone workflow, exactly one settle
\* delay of 20 seconds was taken, right after the template repository creation
\* returned success and right before the clone workflow's call; a request whose
\* creation succeeded never stands at or beyond the clone workflow without having
\* slept; and a request whose creation failed never sleeps.
C17_SettleBetween ==
    \A r \in Reqs :
        /\ ( \/ Invoked(r, "CloneAndPushRepo")
             \/ (Succeeded(r, "CreateGitRepository")
                    /\ pc[r] \in {"CloneAndPushRepo", "returned"}) ) =>
               \E i \in DOMAIN calls[r] :
                   /\ Entries(r, "Sleep") = {i}
                   /\ calls[r][i] = Call("Sleep", "20s", nil)
                   /\ i > 1
                   /\ calls[r][i-1].step = "CreateGitRepository"
                   /\ calls[r][i-1].err = nil
                   /\ \A k \in Entries(r, "CloneAndPushRepo") : k = i + 1
        /\ FailedAt(r, "CreateGitRepository") => ~Invoked(r, "Sleep")
        /\ Invoked(r, "Sleep") => Succeeded(r, "CreateGitRepository")

\* one request ran the clone workflow after its settle delay while another, whose
\* template creation failed, returned without sleeping
C17_Witness ==
    \E r1, r2 \in Reqs :
        /\ r1 # r2
        /\ Invoked(r1, "CloneAndPushRepo") /\ Invoked(r1, "Sleep")
        /\ FailedAt(r2, "CreateGitRepository") /\ pc[r2] = "returned"
        /\ ~Invoked(r2, "Sleep")

(***************************************************************************)
(* What the completed calls say.                                           *)
(***************************************************************************)
\* p is the only caller that has called FetchSecretValue: its calls ran in sequence
OthersSilent(p) ==
    \A q \in Callers \ {p} : hist[q] = <<>> /\ cpc[q] = "idle"
\* the maps merged into the cache so far
Merged ==
    {hist[p][i].data : <<p, i>> \in {x \in Callers \X (1..MaxCalls) :
                                        /\ x[2] <= Len(hist[x[1]])
                                        /\ hist[x[1]][x[2]].stored}}

\* C7: when a caller's first two calls, made in sequence on the empty cache, ask
\* for the same key and the first returned a value, the first made the one remote
\* GetSecretValue call and the second is a cache hit: it loads no configuration,
\* makes no remote call and returns the same value.
C7_SecondCallHits ==
    \A p \in Callers :
        ( /\ OthersSilent(p)
          /\ Len(hist[p]) >= 2
          /\ hist[p][1].key = hist[p][2].key
          /\ hist[p][1].err = nil ) =>
            LET a == hist[p][1]
                b == hist[p][2]
            IN  /\ ~a.hit /\ a.gets = 1
                /\ b.hit /\ b.gets = 0 /\ b.loads = 0
                /\ a.gets + b.gets = 1
                /\ b.err = nil /\ b.value = a.value

\* GITHUB_TOKEN asked for twice in sequence, the second call a hit
C7_Witness ==
    \E p \in Callers :
        /\ OthersSilent(p)
        /\ Len(hist[p]) >= 2
        /\ hist[p][1].key = "GITHUB_TOKEN" /\ hist[p][1].err = nil
        /\ hist[p][2].key = "GITHUB_TOKEN" /\ hist[p][2].hit

\* C8: every key of every map merged into the cache is cached, with the value
\* some merged map gives it; a cache hit makes no remote call and returns such a
\* value; and when a caller's first call fetched and merged a map, its next call
\* in sequence, for any key of that map, is a hit that makes no remote call and
\* returns that map's value for the key.
C8_SiblingsCached ==
    /\ \A B \in Merged : \A j \in DOMAIN B :
           /\ j \in DOMAIN cache
           /\ \E B2 \in Merged : j \in DOMAIN B2 /\ cache[j] = B2[j]
    /\ \A p \in Callers : \A i \in DOMAIN hist[p] :
           hist[p][i].hit =>
               /\ hist[p][i].gets = 0
               /\ \E B \in Merged :
                      /\ hist[p][i].key \in DOMAIN B
                      /\ hist[p][i].value = B[hist[p][i].key]
    /\ \A p \in Callers :
           ( /\ OthersSilent(p)
             /\ Len(hist[p]) >= 2
             /\ hist[p][1].stored
             /\ hist[p][2].key \in DOMAIN hist[p][1].data ) =>
               LET a == hist[p][1]
                   b == hist[p][2]
               IN  /\ b.hit /\ b.gets = 0 /\ b.loads = 0
                   /\ b.err = nil /\ b.value = a.data[b.key]

\* a miss on GITHUB_TOKEN fetched the bundle; TEMPLATE_URL, asked for next, is a hit
C8_Witness ==
    \E p \in Callers :
        /\ OthersSilent(p)
        /\ Len(hist[p]) >= 2
        /\ hist[p][1].key = "GITHUB_TOKEN" /\ hist[p][1].stored
        /\ hist[p][2].key = "TEMPLATE_URL" /\ hist[p][2].hit
        /\ hist[p][2].value = hist[p][1].data["TEMPLATE_URL"]

\* C9: the lock is held only by a caller that is reading (Check) or writing
\* (Merge) the cache map; a caller loading the configuration or calling
\* GetSecretValue does not hold it.
C9_LockOnlyAroundMap ==
    /\ lock \in {0} \cup Callers
    /\ \A p \in Callers :
           /\ lock = p => cpc[p] \in {"Check", "Merge"}
           /\ cpc[p] \in {"LoadDefaultConfig", "GetSecretValue"} => lock # p

\* one caller is at its remote call while another holds the lock to read the map
C9_Witness ==
    \E p, q \in Callers :
        /\ p # q
        /\ cpc[p] = "GetSecretValue"
        /\ lock = q /\ cpc[q] = "Check"

\* C10: no caller is stuck: a caller inside FetchSecretValue can take its next
\* step, or waits for the lock held by another caller that can take its own; no
\* caller waits for the lock while holding it, and none returns holding it.
C10_NoDeadlock ==
    \A p \in Callers :
        /\ cpc[p] \in {"Lock1", "Lock2"} => lock # p
        /\ cpc[p] = "idle" => lock # p
        /\ cpc[p] # "idle" =>
               \/ ENABLED InCall(p)
               \/ lock \in Callers \ {p} /\ ENABLED InCall(lock)

\* a caller waits to merge while another holds the lock for its own merge
C10_Witness ==
    \E p, q \in Callers :
        /\ p # q
        /\ cpc[p] = "Lock2" /\ ~ENABLED InCall(p)
        /\ lock = q /\ cpc[q] = "Merge"

\* C11: once a key is cached, what FetchSecretValue returns for it (the cached
\* value, read by the hit branch) never changes: no later call, for any key, and
\* no change of the bundle in the store removes or replaces the cached value.
C11_NeverRefreshed ==
    [][\A k \in DOMAIN cache :
           /\ CacheLookup(cache', k).found
           /\ CacheLookup(cache', k).value = CacheLookup(cache, k).value]_vars

\* the call p has just returned from, as FetchSecretValue's step left it
Returned(p) == hist'[p][Len(hist'[p])]

\* C18: a FetchSecretValue call that returns from the configuration load does so
\* with "error loading AWS config: <cause>" and has made no remote fetch; one
\* that returns from the remote fetch has loaded the configuration and fetched
\* once, and fails with "error fetching secret value: <cause>" or, the fetch
\* having succeeded on a SecretString that is not flat JSON, with "error
\* unmarshalling secret value: <cause>"; a call goes on to the merge only with a
\* SecretString that parsed, and there fails with "secret key <key> not found"
\* exactly when the parsed map lacks the key; every failure returns "".
C18_MissFailures ==
    [][\A p \in Callers :
         /\ (cpc[p] # "idle" /\ cpc'[p] = "idle") =>
              LET e == Returned(p)
              IN  /\ e.err # nil => e.value = ""
                  /\ cpc[p] \in {"Check", "LoadDefaultConfig", "GetSecretValue", "Merge"}
                  /\ cpc[p] = "Check" => e.hit /\ e.err = nil
                  /\ cpc[p] = "LoadDefaultConfig" =>
                         /\ ~e.hit /\ e.loads = 1 /\ e.gets = 0 /\ ~e.stored
                         /\ \E c \in ConfigErrs :
                                e.err = "error loading AWS config: " \o c
                  /\ cpc[p] = "GetSecretValue" =>
                         /\ ~e.hit /\ e.loads = 1 /\ e.gets = 1 /\ ~e.stored
                         /\ \/ \E c \in FetchErrs :
                                   e.err = "error fetching secret value: " \o c
                            \/ /\ ~store.wellformed
                               /\ e.err = "error unmarshalling secret value: "
                                              \o UnmarshalErr
                  /\ cpc[p] = "Merge" =>
                         /\ ~e.hit /\ e.loads = 1 /\ e.gets = 1 /\ e.stored
                         /\ IF e.key \in DOMAIN e.data
                            THEN e.err = nil /\ e.value = e.data[e.key]
                            ELSE e.err = "secret key " \o e.key \o " not found"
         /\ (cpc[p] = "GetSecretValue" /\ cpc'[p] = "Lock2") =>
              /\ store.wellformed
              /\ secretData'[p] = UnmarshalMembers(store.members)
              /\ cur'[p].loads = 1 /\ cur'[p].gets = 1
      ]_vars

\* one call failed at the configuration load without a remote fetch and another
\* fetched and parsed the bundle and failed with key-not-found
C18_Witness ==
    \E p, q \in Callers : \E i \in DOMAIN hist[p], j \in DOMAIN hist[q] :
        /\ hist[p][i].err = "error loading AWS config: config load error"
        /\ hist[p][i].gets = 0
        /\ hist[q][j].err = "secret key INVALID_KEY not found"
        /\ hist[q][j].gets = 1
        /\ hist[q][j].value = ""

(***************************************************************************)
(* What the steps of CloneAndPushRepo say.                                 *)
(***************************************************************************)
Ran(r, step) == \E i \in DOMAIN job[r].steps : job[r].steps[i].step = step
RanOK(r, step) ==
    \E i \in DOMAIN job[r].steps :
        job[r].steps[i].step = step /\ job[r].steps[i].err = nil
\* request r takes a step in this transition, and the step succeeds
StepsOK(r) ==
    /\ Len(job'[r].steps) = Len(job[r].steps) + 1
    /\ job'[r].steps[Len(job'[r].steps)].err = nil
\* the steps that work in the working directory, and those that name the clone
\* relative to it
InsideSteps == {"ReadFile", "WriteFile", "GitAdd", "GitCommit", "GitPush", "ChdirParent"}
BesideSteps == {"ChdirRepo", "RemoveAll"}

\* C12: with the requests carrying different repository names, every manifest
\* read and write, stage, commit, push and change back to the parent that a
\* request carries out runs in the directory its own git clone created, and every
\* change into the clone and removal it carries out names that directory.
C12_OwnWorkingCopy ==
    [][\A r \in Reqs :
         StepsOK(r) =>
            /\ job[r].pc \in InsideSteps => cwd = job[r].clone
            /\ job[r].pc \in BesideSteps => cwd \o << job[r].repoName >> = job[r].clone
      ]_vars

\* the steps of CloneAndPushRepo, in the order of the code
WorkflowOrder ==
    << "FetchSecretToken", "FetchGitHubUsername", "GitClone", "ChdirRepo", "ReadFile",
       "WriteFile", "GitAdd", "GitCommit", "GitPush", "ChdirParent", "RemoveAll" >>
HasReturned(r) == job[r].pc = "returned"
ReturnedNil(r) == HasReturned(r) /\ job[r].ret = nil
ReturnedErr(r) == HasReturned(r) /\ job[r].ret # nil
\* the step at which the call failed: its last step, when that has an error
FailedStep(r) ==
    IF job[r].steps # <<>> /\ job[r].steps[Len(job[r].steps)].err # nil
    THEN job[r].steps[Len(job[r].steps)].step
    ELSE ""

\* C13: the steps a CloneAndPushRepo call has run are a prefix of token, identity,
\* clone, change into the clone, read, write, stage, commit, push, change back,
\* removal, each once and in that order; a step that failed is the last one and
\* the call has returned its error; the call returns nil only after all eleven.
C13_StepsInOrder ==
    \A r \in Reqs :
        LET s == job[r].steps
        IN  /\ Len(s) <= Len(WorkflowOrder)
            /\ \A i \in DOMAIN s :
                   /\ s[i].step = WorkflowOrder[i]
                   /\ s[i].err # nil => i = Len(s) /\ ReturnedErr(r)
            /\ ~HasReturned(r) => job[r].ret = Pending
            /\ ReturnedNil(r) => Len(s) = Len(WorkflowOrder)
            /\ ReturnedErr(r) => FailedStep(r) # ""

\* one call failed at the commit, its eighth step, and another ran all eleven
C13_Witness ==
    \E r1, r2 \in Reqs :
        /\ ReturnedErr(r1) /\ FailedStep(r1) = "GitCommit" /\ Len(job[r1].steps) = 8
        /\ ReturnedNil(r2) /\ Len(job[r2].steps) = Len(WorkflowOrder)

\* C14: a CloneAndPushRepo call that returns nil has run the removal of its
\* working copy without error, as its last step, after the push and the change
\* back to the parent; and at the return the directory its git clone created is
\* gone.
C14_NoCloneOutlivesSuccess ==
    [][\A r \in Reqs :
         (~HasReturned(r) /\ ReturnedNil(r)') =>
            LET s == job'[r].steps
            IN  /\ s[Len(s)] = [step |-> "RemoveAll", err |-> nil]
                /\ \E i, k \in DOMAIN s :
                       /\ i < k /\ k < Len(s)
                       /\ s[i] = [step |-> "GitPush", err |-> nil]
                       /\ s[k] = [step |-> "ChdirParent", err |-> nil]
                /\ job'[r].clone \notin dirs'
      ]_vars

\* the steps between the clone and the removal
MiddleSteps ==
    {"ChdirRepo", "ReadFile", "WriteFile", "GitAdd", "GitCommit", "GitPush", "ChdirParent"}

\* C15: the removal is run only after all ten steps before it ran without error;
\* and when a call whose clone succeeded returns the error of the change into the
\* clone, the read, the write, the stage, the commit, the push or the change back,
\* it has not run the removal and the directory its git clone created still
\* exists.
C15_RemovalOnlyAfterAll ==
    [][\A r \in Reqs :
         /\ Ran(r, "RemoveAll")' =>
                \A i \in 1..(Len(WorkflowOrder) - 1) : RanOK(r, WorkflowOrder[i])'
         /\ (~HasReturned(r) /\ ReturnedErr(r)' /\ FailedStep(r)' \in MiddleSteps) =>
                /\ RanOK(r, "GitClone")'
                /\ ~Ran(r, "RemoveAll")'
                /\ job'[r].clone \in dirs'
      ]_vars

\* the first line that begins with "module", 0 when there is none
FirstModuleLine(lines) ==
    IF \E i \in DOMAIN lines : lines[i] # <<>> /\ lines[i][1] = "module"
    THEN CHOOSE i \in DOMAIN lines :
             /\ lines[i] # <<>> /\ lines[i][1] = "module"
             /\ \A j \in 1..(i-1) : lines[j] = <<>> \/ lines[j][1] # "module"
    ELSE 0
\* the text of a line: its pieces, concatenated
RECURSIVE Text(_)
Text(line) == IF line = <<>> THEN "" ELSE line[1] \o Text(Tail(line))

\* C16: for a go.mod of lines ls whose first line beginning with "module" is line
\* i, the content written has as many lines as ls, its line i reads "module
\* github.com/<username>/<repoName>", and every other line, also a later one
\* beginning with "module", is the line of ls at that place.
C16_OnlyFirstModuleLine ==
    (rewrite.done /\ FirstModuleLine(rewrite.lines) # 0) =>
        LET ls == rewrite.lines
            i == FirstModuleLine(ls)
            out == Split(rewrite.output)
        IN  /\ Len(out) = Len(ls)
            /\ Text(out[i]) = "module github.com/" \o rewrite.username
                                  \o "/" \o rewrite.repoName
            /\ \A j \in DOMAIN ls : j # i => out[j] = ls[j]
            /\ rewrite.output = Join([ls EXCEPT ![i] =
                                         ModuleLine(rewrite.username, rewrite.repoName)])

\* a go.mod rewritten whose first "module" line is its second line and whose
\* third line begins with "module" too
C16_Witness ==
    /\ rewrite.done
    /\ Len(rewrite.lines) = 3
    /\ FirstModuleLine(rewrite.lines) = 2
    /\ rewrite.lines[3] # <<>> /\ rewrite.lines[3][1] = "module"
    /\ Split(rewrite.output)[3] = rewrite.lines[3]

\* the message prefix of each step of CloneAndPushRepo (clone_push.go 48-119)
StepMessage(step) ==
    CASE step = "FetchSecretToken" -> "error fetching GitHub token: "
      [] step = "FetchGitHubUsername" -> "error fetching GitHub username: "
      [] step = "GitClone" -> "error cloning repository: "
      [] step = "ChdirRepo" -> "error changing directory to cloned repository: "
      [] step = "ReadFile" -> "error reading go.mod file: "
      [] step = "WriteFile" -> "error writing to go.mod file: "
      [] step = "GitAdd" -> "error adding go.mod file to git: "
      [] step = "GitCommit" -> "error committing changes: "
      [] step = "GitPush" -> "error pushing changes: "
      [] step = "ChdirParent" -> "error changing back to the parent directory: "
      [] step = "RemoveAll" -> "error removing the cloned repository: "
\* the steps of the order
StepNames == {WorkflowOrder[i] : i \in DOMAIN WorkflowOrder}
\* no two steps have the same message
MessagesDiffer ==
    \A s, t \in StepNames : s # t => StepMessage(s) # StepMessage(t)

\* C19: the error a CloneAndPushRepo call returns is the message of the step that
\* failed followed by that step's cause; the eleven steps have eleven different
\* messages, so that no other step, failing with the same cause, yields the error
\* returned.
C19_ErrorNamesStep ==
    /\ MessagesDiffer
    /\ \A r \in Reqs :
           ReturnedErr(r) =>
               LET last == job[r].steps[Len(job[r].steps)]
               IN  /\ last.err # nil
                   /\ job[r].ret = StepMessage(last.step) \o last.err
                   /\ \A t \in StepNames \ {last.step} :
                          job[r].ret # StepMessage(t) \o last.err

\* one call failed at the change into its clone and another at the change back to
\* the parent, with different errors
C19_Witness ==
    \E r1, r2 \in Reqs :
        /\ ReturnedErr(r1) /\ FailedStep(r1) = "ChdirRepo"
        /\ ReturnedErr(r2) /\ FailedStep(r2) = "ChdirParent"
        /\ job[r1].ret = "error changing directory to cloned repository: " \o IOErr
        /\ job[r2].ret = "error changing back to the parent directory: " \o IOErr

\* the text FetchGitHubUsername gives for the statuses outside 2xx that the
\* endpoint answers with
StatusText ==
    [s \in {StatusUnauthorized, StatusInternalServerError} |->
        IF s = StatusUnauthorized
        THEN "failed to fetch GitHub username, status code: 401"
        ELSE "failed to fetch GitHub username, status code: 500"]

\* C20: when the identity lookup was answered with a status outside 200..299, the
\* call has no identity, FetchGitHubUsername's error is "failed to fetch GitHub
\* username, status code: <the status in decimal>", CloneAndPushRepo has returned
\* "error fetching GitHub username: " followed by it, and the clone was not run.
C20_StatusInIdentityError ==
    \A r \in Reqs :
        (job[r].status # 0 /\ ~(job[r].status \in 200..299)) =>
            /\ job[r].status \in DOMAIN StatusText
            /\ job[r].username = ""
            /\ ReturnedErr(r)
            /\ FailedStep(r) = "FetchGitHubUsername"
            /\ job[r].steps[Len(job[r].steps)].err = StatusText[job[r].status]
            /\ job[r].ret = "error fetching GitHub username: " \o StatusText[job[r].status]
            /\ ~Ran(r, "GitClone")
            /\ job[r].clone = Root

\* an identity lookup answered 401
C20_Witness ==
    \E r \in Reqs :
        /\ job[r].status = StatusUnauthorized
        /\ ReturnedErr(r)
        /\ job[r].ret = "error fetching GitHub username: failed to fetch GitHub username, status code: 401"

(***************************************************************************)
(* What one CreateGitRepository call was given and returned.               *)
(***************************************************************************)
\* the POST was sent and answered
Answered ==
    /\ git.pc = "done"
    /\ git.token.err = nil
    /\ NewRequestErr(git.config.TemplateURL) = nil
    /\ git.do.err = nil
StatusAndBody(a) ==
    "failed to create repository, status code: " \o Itoa(a.status)
        \o ", response: " \o a.body

\* C21 as stated: CreateGitRepository returns nil exactly when the POST was
\* answered 201, and for an answer of any other status it returns an error made of
\* the status code and the body text.
C21_EveryOtherStatusCarriesBody ==
    /\ (git.pc = "done" /\ git.ret = nil)
           => (Answered /\ git.do.answer.status = StatusCreated)
    /\ Answered =>
         LET a == git.do.answer
         IN  IF a.status = StatusCreated THEN git.ret = nil
             ELSE git.ret = StatusAndBody(a)

\* C21: CreateGitRepository returns nil exactly when the POST was answered 201;
\* for an answer of any other status whose body was read it returns an error made
\* of the status code and the body text, and when the body could not be read it
\* returns "failed to read response body: <cause>", without status or body.
C21_OtherStatusCarriesReadBody ==
    /\ (git.pc = "done" /\ git.ret = nil)
           => (Answered /\ git.do.answer.status = StatusCreated)
    /\ Answered =>
         LET a == git.do.answer
         IN  IF a.status = StatusCreated THEN git.ret = nil
             ELSE IF a.readErr = nil THEN git.ret = StatusAndBody(a)
             ELSE git.ret = "failed to read response body: " \o a.readErr

\* a call answered 200 with a body that was read: an error with 200 and the body
C21_Witness ==
    /\ Answered
    /\ git.do.answer = [status |-> StatusOK, body |-> "name already exists",
                        readErr |-> nil]
    /\ git.ret = "failed to create repository, status code: 200, response: name already exists"

\* C22: with the token resolved, a call whose template URL is malformed returns
\* the error of parsing it, and a call whose HTTP client returned an error
\* returns that error, each with nothing added to its message.
C22_TransportErrorUnmodified ==
    (git.pc = "done" /\ git.token.err = nil) =>
        /\ git.config.TemplateURL = ":invalid-url" =>
               git.ret = "parse \":invalid-url\": missing protocol scheme"
        /\ (git.config.TemplateURL \notin MalformedURLs /\ git.do.err # nil) => git.ret = git.do.err

\* a call on a well-formed URL whose client returned "HTTP Do error"
C22_Witness ==
    /\ git.pc = "done"
    /\ git.token.err = nil
    /\ git.config.TemplateURL \in TemplateURLs
    /\ git.do.err = "HTTP Do error"
    /\ git.ret = "HTTP Do error"

\* C23: a request makes at most one registry creation call, and exactly one once
\* it is past that step; a creation that failed, because the repository already
\* exists or for any other reason, is the request's last call, and the request
\* has returned with the one answer 500 "Failed to create ECR repository:
\* <cause>"; no two requests both created a repository of the same name.
C23_OneCreationNoSwallow ==
    \A r \in Reqs :
        /\ Cardinality(Entries(r, "CreateRepo")) <= 1
        /\ (\E i \in DOMAIN calls[r] :
               calls[r][i].step \in {"LoadEnv", "DefaultRepoConfig", "NewGitClient",
                                     "CreateGitRepository", "Sleep", "CloneAndPushRepo"})
              => Succeeded(r, "CreateRepo")
        /\ \A i \in Entries(r, "CreateRepo") :
               calls[r][i].err \in {EcrAlreadyExists, EcrGenericErr} =>
                   /\ i = Len(calls[r])
                   /\ pc[r] = "returned"
                   /\ resp[r] = << ErrorAnswer("Failed to create ECR repository: "
                                                   \o calls[r][i].err) >>
        /\ \A q \in Reqs \ {r} :
               (Succeeded(r, "CreateRepo") /\ Succeeded(q, "CreateRepo"))
                   => req[r].body.RepoName # req[q].body.RepoName

\* two requests for one name: the first created the repository, the second was
\* told it already exists and was answered with that error
C23_Witness ==
    \E r, q \in Reqs :
        /\ r # q
        /\ req[r].body.RepoName = req[q].body.RepoName
        /\ Succeeded(r, "CreateRepo")
        /\ FailedAt(q, "CreateRepo")
        /\ ErrOf(q, "CreateRepo") = EcrAlreadyExists
        /\ resp[q] = << ErrorAnswer("Failed to create ECR repository: repository already exists") >>

C25_InvalidRequestNoStep ==
    \A r \in Reqs :
        LET Refused(status, msg) ==
                /\ pc[r] = "returned"
                /\ resp[r] = << [status |-> status, body |-> msg \o "\n"] >>
                /\ calls[r] = <<>>
                /\ answers[r] = <<>>
        IN  pc[r] # "idle" =>
              /\ req[r].method # "POST" => Refused(405, "Method not allowed")
              /\ (req[r].method = "POST" /\ ~req[r].body.decodes)
                     => Refused(400, "Bad request")
              /\ (req[r].method = "POST" /\ req[r].body.decodes
                      /\ req[r].body.RepoName = "")
                     => Refused(400, "Repository name is required")

\* a POST without a repository name was refused while another request went on to
\* create its registry repository
C25_Witness ==
    \E r, q \in Reqs :
        /\ req[r].method = "POST" /\ req[r].body.decodes /\ req[r].body.RepoName = ""
        /\ pc[r] = "returned"
        /\ resp[r] = << [status |-> StatusBadRequest,
                         body |-> "Repository name is required\n"] >>
        /\ Succeeded(q, "CreateRepo")

\* C26: every registry creation, template creation and clone workflow call of a
\* request is made with the repository name of the request.
C26_SameNameEveryStep ==
    \A r \in Reqs : \A i \in DOMAIN calls[r] :
        calls[r][i].step \in {"CreateRepo", "CreateGitRepository", "CloneAndPushRepo"}
            => calls[r][i].arg = req[r].body.RepoName

\* the request has returned with an answer that is not the success
FailureOutcome(r) == pc[r] = "returned" /\ ~AnsweredOK(r)
\* the one answer of r is 500 "Failed to <step>: <cause>" for its last call, a
\* call that failed with <cause>
FailedToStep(r) ==
    /\ calls[r] # <<>>
    /\ LET last == calls[r][Len(calls[r])]
       IN  /\ last.err # nil
           /\ last.step \in {"CreateECRClient", "CreateRepo", "CreateGitRepository",
                             "CloneAndPushRepo"}
           /\ resp[r] = << [status |-> 500,
                            body |-> StepPrefix(last.step) \o last.err \o "\n"] >>

\* C27 as stated: every request that returned without success has one answer, of
\* the form "Failed to <step>: <cause>" for a step that failed with <cause>.
C27_EveryFailureNamesStep ==
    \A r \in Reqs : FailureOutcome(r) => FailedToStep(r)

\* C27: a request that returned without success after making a call has one
\* answer, 500 "Failed to <step>: <cause>", for its last call, which failed with
\* <cause>; one that returned without making any call was refused by validation
\* and has one answer, 405 or 400 with a fixed text not of that form.
C27_StepFailureNamesStep ==
    \A r \in Reqs :
        FailureOutcome(r) =>
            IF calls[r] # <<>> THEN FailedToStep(r)
            ELSE resp[r] \in { << [status |-> 405, body |-> "Method not allowed\n"] >>,
                               << [status |-> 400, body |-> "Bad request\n"] >>,
                               << [status |-> 400,
                                   body |-> "Repository name is required\n"] >> }

\* a request whose registry creation failed, answered with the step and the cause
C27_Witness ==
    \E r \in Reqs :
        /\ FailureOutcome(r)
        /\ resp[r] = << [status |-> StatusInternalServerError,
                         body |-> "Failed to create ECR repository: some error message\n"] >>

\* C28: a request whose DefaultRepoConfig call failed makes no template creation,
\* settle or clone call, and once it has returned its one answer is 500 with a
\* message that contains "Failed to create default repository configuration".
C28_ConfigFailureStops ==
    \A r \in Reqs :
        FailedAt(r, "DefaultRepoConfig") =>
            /\ ~Invoked(r, "CreateGitRepository")
            /\ ~Invoked(r, "Sleep")
            /\ ~Invoked(r, "CloneAndPushRepo")
            /\ pc[r] = "returned" =>
                   /\ Len(resp[r]) = 1
                   /\ resp[r][1].status = 500
                   /\ resp[r][1].body \in
                          { "Failed to create default repository configuration" \o tail :
                              tail \in {"\n", ": " \o ErrOf(r, "DefaultRepoConfig") \o "\n"} }

\* C29: a request whose CreateECRClient call failed has returned with the one
\* answer 500 "Failed to create ECR client: <cause>", and that call is its only
\* call: no registry creation and no later step.
C29_EcrClientFailureStops ==
    \A r \in Reqs :
        FailedAt(r, "CreateECRClient") =>
            /\ pc[r] = "returned"
            /\ resp[r] = << [status |-> 500,
                             body |-> "Failed to create ECR client: "
                                          \o ErrOf(r, "CreateECRClient") \o "\n"] >>
            /\ Len(calls[r]) = 1
            /\ req[r].body.RepoName \in ecrRepos
                   => \E q \in Reqs \ {r} : Succeeded(q, "CreateRepo")

\* a request stopped at the ECR client while another one provisioned everything
C29_Witness ==
    \E r, q \in Reqs :
        /\ FailedAt(r, "CreateECRClient")
        /\ resp[r] = << [status |-> StatusInternalServerError,
                         body |-> "Failed to create ECR client: mock error creating ECR client\n"] >>
        /\ AnsweredOK(q)

\* C30: for every name and description, when the template URL was resolved
\* DefaultRepoConfig returns no error and the configuration with that name, that
\* description, private, auto-initialised and carrying the resolved URL; when it
\* was not resolved it returns the error "failed to fetch template URL: <cause>"
\* and the empty configuration.
C30_DefaultRepoConfig ==
    git.pc \in {"CreateGitRepository", "done"} =>
        IF git.tmpl.err = nil
        THEN /\ git.configErr = nil
             /\ git.config.Name = git.repoName
             /\ git.config.Description = git.description
             /\ git.config.Private = TRUE
             /\ git.config.AutoInit = TRUE
             /\ git.config.TemplateURL = git.tmpl.value
        ELSE /\ git.configErr = "failed to fetch template URL: " \o git.tmpl.err
             /\ git.config = [Name |-> "", Description |-> "", Private |-> FALSE,
                              AutoInit |-> FALSE, TemplateURL |-> ""]

\* a configuration built for "svc-a" with a description and a resolved URL
C30_Witness ==
    /\ git.pc = "CreateGitRepository"
    /\ git.tmpl.err = nil
    /\ git.config = [Name |-> "svc-a", Description |-> "orders service",
                     Private |-> TRUE, AutoInit |-> TRUE,
                     TemplateURL |-> "https://api.github.com/repos/tmpl/generate"]

\* C31: with every call returning, every request that passed validation
\* eventually has its handler returned, with the success answer or an error
\* answer, whatever the other requests do; the workflow it calls on the way
\* returns as well.
C31_AcceptedRequestTerminates ==
    \A r \in Reqs :
        /\ (pc[r] = "CreateECRClient") ~> (pc[r] = "returned" /\ Len(resp[r]) = 1)
        /\ (job[r].pc = "FetchSecretToken") ~> (job[r].pc = "returned")

\* a request went through the whole workflow and was answered 200
C31_Witness ==
    \E r \in Reqs :
        /\ pc[r] = "returned"
        /\ AnsweredOK(r)
        /\ job[r].pc = "returned"
        /\ Len(job[r].steps) = 11

\* C32: when the token cannot be fetched, CreateGitRepository calls
\* HTTPClient.Do not at all and returns the token source's error as it is,
\* whatever the configuration and whatever the client would have answered; a
\* request is sent only with a token in hand.
C32_TokenFailureSendsNothing ==
    git.pc = "done" =>
        /\ git.token.err # nil => (git.sent = 0 /\ git.ret = git.token.err)
        /\ git.sent = 1 => git.token.err = nil

\* the token fetch failed although the URL was well-formed and the client
\* would have answered 201
C32_Witness ==
    /\ git.pc = "done"
    /\ git.token.err # nil
    /\ git.config.TemplateURL \in TemplateURLs
    /\ git.do.err = nil
    /\ git.do.answer.status = StatusCreated
    /\ git.ret = git.token.err

\* C33: at the step with which a CloneAndPushRepo call returns, the working
\* directory of the process is the one the call was entered in when the call
\* returns nil or fails at the token, the identity, the clone, the change into
\* the clone or the removal, and is the call's clone (the entry directory's
\* child of the repository's name) when it fails at the read, the write, the
\* stage, the commit, the push or the change back.
C33_WorkingDirectoryAtReturn ==
    [][\A r \in Reqs :
          (job[r].pc # "returned" /\ job'[r].pc = "returned") =>
              LET last == job'[r].steps[Len(job'[r].steps)]
              IN  IF last.err = nil
                     \/ last.step \in {"FetchSecretToken", "FetchGitHubUsername",
                                       "GitClone", "ChdirRepo", "RemoveAll"}
                  THEN cwd' = job[r].entry
                  ELSE cwd' = job[r].entry \o << job[r].repoName >>]_vars

\* the FetchSecretValue calls that have returned, as <<caller, index>>
CallsDone == {c \in Callers \X (1..MaxCalls) : c[2] <= Len(hist[c[1]])}
CallDone(c) == hist[c[1]][c[2]]
\* the maps a well-formed SecretString of the model parses to
Bundles == {Unmarshal(s).data : s \in {x \in SecretStrings : x.wellformed}}

\* C34: when every call made since the cache was empty has returned, each was
\* for a key of the bundle B, and each either found its key cached or fetched B
\* (its config load and its fetch succeeded), then every call returned B's value
\* for its key and no error, the calls that fetched are at least one and at most
\* all of them, each fetching once, and the cache is B, key for key.
C34_ConcurrentCallsFillCache ==
    \A B \in Bundles :
        (/\ \A p \in Callers : cpc[p] = "idle"
         /\ CallsDone # {}
         /\ \A c \in CallsDone :
                /\ CallDone(c).key \in DOMAIN B
                /\ CallDone(c).hit \/ (CallDone(c).stored /\ CallDone(c).data = B))
        => /\ \A c \in CallsDone :
                /\ CallDone(c).err = nil
                /\ CallDone(c).value = B[CallDone(c).key]
                /\ CallDone(c).gets \in {0, 1}
           /\ Cardinality({c \in CallsDone : CallDone(c).gets = 1})
                  \in 1..Cardinality(CallsDone)
           /\ cache = B

\* two callers both saw the empty cache, both fetched the bundle and both
\* returned its value for their key
C34_Witness ==
    /\ \A p \in Callers : cpc[p] = "idle"
    /\ Cardinality(CallsDone) = 2
    /\ \A c \in CallsDone :
           /\ CallDone(c).gets = 1
           /\ CallDone(c).stored
           /\ CallDone(c).err = nil
           /\ CallDone(c).data = Unmarshal(InitialSecret).data
    /\ \E c, d \in CallsDone : c[1] # d[1] /\ CallDone(c).key # CallDone(d).key
    /\ cache = Unmarshal(InitialSecret).data

\* C35: at the step with which a FetchSecretValue call returns "secret key
\* <key> not found", every key of the map the call fetched is in the cache with
\* the fetched value, whatever was cached for it before, and the keys the call
\* did not fetch are cached as they were.
C35_NotFoundStillMerges ==
    [][\A p \in Callers :
           (/\ Len(hist'[p]) = Len(hist[p]) + 1
            /\ Returned(p).err = "secret key " \o Returned(p).key \o " not found")
           => /\ Returned(p).stored
              /\ \A k \in DOMAIN Returned(p).data :
                     /\ k \in DOMAIN cache'
                     /\ cache'[k] = Returned(p).data[k]
              /\ \A k \in DOMAIN cache \ DOMAIN Returned(p).data :
                     k \in DOMAIN cache' /\ cache'[k] = cache[k]
              /\ DOMAIN cache' = DOMAIN cache \cup DOMAIN Returned(p).data]_vars

\* a call for a key the bundle lacks has failed, and its merge replaced the
\* token cached before with the one it fetched
C35_Witness ==
    \E p, q \in Callers :
        /\ Len(hist[p]) >= 1 /\ Len(hist[q]) >= 1
        /\ hist[p][1].err = nil /\ hist[p][1].key = "GITHUB_TOKEN"
        /\ hist[p][1].value = "token-1"
        /\ LET h == hist[q][Len(hist[q])]
           IN  /\ h.err = "secret key " \o h.key \o " not found"
               /\ h.stored
               /\ "GITHUB_TOKEN" \in DOMAIN h.data
               /\ h.data["GITHUB_TOKEN"] = "token-2"
        /\ cpc[q] = "idle"
        /\ cache["GITHUB_TOKEN"] = "token-2"

\* the keys no bundle of the store holds
AbsentKeys == {k \in Keys : \A B \in Bundles : k \notin DOMAIN B}

\* C36: a key absent from the bundle is never in the cache; every call for it,
\* the first and every repetition, misses the cache, loads the configuration
\* once and, the configuration loaded, fetches remotely once (a call whose
\* configuration load fails ends there, as for any key); none returns a value.
C36_AbsentKeyNeverCached ==
    \A k \in AbsentKeys :
        /\ k \notin DOMAIN cache
        /\ \A c \in CallsDone :
               CallDone(c).key = k =>
                   /\ ~CallDone(c).hit
                   /\ CallDone(c).err # nil
                   /\ CallDone(c).loads = 1
                   /\ CallDone(c).gets =
                          IF CallDone(c).err \in {"error loading AWS config: " \o e :
                                                      e \in ConfigErrs}
                          THEN 0 ELSE 1

\* one caller asked twice for a key the bundle lacks, and fetched the bundle
\* both times
C36_Witness ==
    \E p \in Callers :
        /\ Len(hist[p]) = 2
        /\ \A i \in 1..2 :
               /\ hist[p][i].key \in AbsentKeys
               /\ hist[p][i].key = hist[p][1].key
               /\ hist[p][i].err = "secret key " \o hist[p][i].key \o " not found"
               /\ hist[p][i].loads = 1
               /\ hist[p][i].gets = 1
               /\ hist[p][i].stored

\* the errors FetchSecretValue returns before it has a parsed bundle
EarlyErrs ==
    {"error loading AWS config: " \o e : e \in ConfigErrs}
        \cup {"error fetching secret value: " \o e : e \in FetchErrs}
        \cup {"error unmarshalling secret value: " \o UnmarshalErr}

\* C37: a call that returns a config-load, secret-fetch or parse error has never
\* reached the merge and returns "", and the step with which it returns leaves
\* the cache as it is; the cache changes only at the merge step of a call whose
\* bundle parsed, so no step of the failing call has written it.
C37_EarlyFailureKeepsCache ==
    [][/\ \A p \in Callers :
              (/\ Len(hist'[p]) = Len(hist[p]) + 1
               /\ Returned(p).err \in EarlyErrs)
              => /\ cache' = cache
                 /\ ~Returned(p).stored
                 /\ Returned(p).value = ""
       /\ cache' # cache =>
              \E p \in Callers :
                  /\ cpc[p] = "Merge"
                  /\ Len(hist'[p]) = Len(hist[p]) + 1
                  /\ Returned(p).stored
                  /\ Returned(p).err \notin EarlyErrs]_vars

\* a call failed on a fetch error with the bundle already cached, and the cache
\* is still the bundle
C37_Witness ==
    \E p \in Callers :
        /\ cpc[p] = "idle"
        /\ hist[p] # <<>>
        /\ hist[p][Len(hist[p])].err \in
               {"error fetching secret value: " \o e : e \in FetchErrs}
        /\ hist[p][Len(hist[p])].key = "INVALID_KEY"
        /\ cache = Unmarshal(InitialSecret).data

\* the identity step of call r, once the lookup was answered
IdentityStep(r) == job[r].steps[2]

\* C38: once the identity lookup was answered, the call holds an identity if and
\* only if the status was 200 and the body decoded, and the identity is the
\* body's login; with status 200 and a body that does not decode the lookup
\* fails with the decoder's error; with any other status, 201 included, it
\* fails with "failed to fetch GitHub username, status code: <status>" whatever
\* the body, the identity is empty and the call is over.
C38_IdentityOnlyOn200 ==
    \A r \in Reqs :
        job[r].status # 0 =>
            /\ Len(job[r].steps) >= 2
            /\ IdentityStep(r).step = "FetchGitHubUsername"
            /\ (job[r].username # "") =
                   (job[r].status = StatusOK /\ IdentityStep(r).err = nil)
            /\ job[r].username # "" =>
                   job[r].username \in {b.login : b \in {x \in UserBodies : x.decodes}}
            /\ job[r].status = StatusOK =>
                   IdentityStep(r).err \in {nil, DecodeErr}
            /\ job[r].status # StatusOK =>
                   /\ IdentityStep(r).err =
                          "failed to fetch GitHub username, status code: "
                              \o Itoa(job[r].status)
                   /\ ReturnedErr(r)
                   /\ Len(job[r].steps) = 2

\* an identity lookup answered 201
C38_Witness ==
    \E r \in Reqs :
        /\ job[r].status = StatusCreated
        /\ job[r].username = ""
        /\ ReturnedErr(r)
        /\ IdentityStep(r).err = "failed to fetch GitHub username, status code: 201"

\* no line of the content begins with "module"
NoModuleLine(content) ==
    \A i \in 1..Len(Split(content)) : ~HasPrefix(Split(content)[i], "module")

\* C39: when no line of the go.mod read begins with "module", the rewrite yields
\* the content read, piece for piece; the write stores exactly that content and
\* the call goes on to git add with no error, and the only error the step can
\* end with is the file system's refusal of the write, which leaves the file
\* as it was.
C39_NoModuleLineWrittenBack ==
    NoModuleLine(rewrite.input) =>
        /\ rewrite.done => rewrite.output = rewrite.input
        /\ rewrite.next = "GitAdd" =>
               (rewrite.file = rewrite.input /\ rewrite.ret = Pending)
        /\ rewrite.next = "returned" =>
               /\ rewrite.ret = "error writing to go.mod file: " \o IOErr
               /\ rewrite.file = rewrite.input
        /\ rewrite.next \in {"", "GitAdd", "returned"}

\* a go.mod of three lines, one of them a comment that names the module, was
\* written back as it was read and the call is at git add
C39_Witness ==
    /\ rewrite.next = "GitAdd"
    /\ Len(rewrite.lines) = 3
    /\ NoModuleLine(rewrite.input)
    /\ \E i \in 1..3 : rewrite.lines[i] = << "// module path" >>
    /\ \E i \in 1..3 : rewrite.lines[i] = <<>>
    /\ rewrite.file = rewrite.input
    /\ rewrite.ret = Pending

====
